---- MODULE Spec2Model ----
(***************************************************************************)
(* A model of the STAR collaborative consultation of AI_Hospital_eff:      *)
(* hospital/collaborative_consultation_star.py (the orchestrator),         *)
(* agents/doctor.py, agents/host.py and agents/patient.py.                 *)
(*                                                                         *)
(* Texts are sequences of tokens.  "#" is the character #, "NL" a newline, *)
(* "SP" a blank, and a section label is one token, written in English:     *)
(*   symptom = 症状, examination = 辅助检查, diagnosis_result = 诊断结果,  *)
(*   diagnosis_basis = 诊断依据, treatment_plan = 治疗方案.                *)
(* A Python dict is a function whose DOMAIN is the set of its keys.        *)
(***************************************************************************)
EXTENDS Integers, Sequences, FiniteSets, TLC

(***************************************************************************)
(* Generic helpers on token sequences and dicts.                           *)
(***************************************************************************)

\* The keys of a Diagnosis Record, in the order the code iterates over them.
DiagnosisKeys == <<"symptom", "examination", "diagnosis_result", "diagnosis_basis", "treatment_plan">>

KeySet == {DiagnosisKeys[i] : i \in 1..Len(DiagnosisKeys)}

\* Characters Python's str.strip() removes.
Whitespace == {"NL", "SP"}

EmptyDict == [x \in {} |-> <<>>]

\* dict.update(other): keys of other are overwritten or added, all others kept.
DictUpdate(d, other) == [x \in (DOMAIN d) \cup (DOMAIN other) |-> IF x \in DOMAIN other THEN other[x] ELSE d[x]]

\* dict.get(key, default)
DictGet(d, key, default) == IF key \in DOMAIN d THEN d[key] ELSE default

RECURSIVE LStrip(_)
LStrip(s) == IF s # <<>> /\ Head(s) \in Whitespace THEN LStrip(Tail(s)) ELSE s

RECURSIVE RStrip(_)
RStrip(s) == IF s # <<>> /\ s[Len(s)] \in Whitespace THEN RStrip(SubSeq(s, 1, Len(s) - 1)) ELSE s

\* str.strip()
Strip(s) == RStrip(LStrip(s))

\* The text "#key#".
Marker(key) == <<"#", key, "#">>

\* text[i:] starts with pat
StartsAt(text, i, pat) == /\ i >= 1
                          /\ i + Len(pat) - 1 <= Len(text)
                          /\ SubSeq(text, i, i + Len(pat) - 1) = pat

\* text.find(pat, start), 1-based; 0 when absent
RECURSIVE FindFrom(_, _, _)
FindFrom(text, pat, start) == IF start + Len(pat) - 1 > Len(text) THEN 0 ELSE IF StartsAt(text, start, pat) THEN start ELSE FindFrom(text, pat, start + 1)

\* text.find(pat), 1-based; 0 when absent
Find(text, pat) == FindFrom(text, pat, 1)

\* pat in text
Contains(text, pat) == Find(text, pat) > 0

\* re.sub(pat, '', text): every non-overlapping occurrence, left to right.
RECURSIVE RemoveAll(_, _)
RemoveAll(text, pat) == IF text = <<>> THEN <<>> ELSE IF StartsAt(text, 1, pat) THEN RemoveAll(SubSeq(text, Len(pat) + 1, Len(text)), pat) ELSE <<Head(text)>> \o RemoveAll(Tail(text), pat)

\* Concatenation of a sequence of texts.
RECURSIVE Flatten(_)
Flatten(ss) == IF ss = <<>> THEN <<>> ELSE Head(ss) \o Flatten(Tail(ss))

\* All sequences over S of length at most n.
SeqsUpTo(S, n) == UNION {[1..m -> S] : m \in 0..n}

(***************************************************************************)
(* agents/doctor.py                                                        *)
(***************************************************************************)

\* The match of r"\#key\#(.*?)\n\#" (re.S) on text: the group of the leftmost
\* match, i.e. what follows the first "#key#" up to the first "\n#" after it.
SectionGroup(text, key) == LET i == Find(text, Marker(key))
                           IN SubSeq(text, i + 3, FindFrom(text, <<"NL", "#">>, i + 3) - 1)

\* re.findall(...) is non-empty
SectionFound(text, key) == LET i == Find(text, Marker(key))
                           IN i > 0 /\ FindFrom(text, <<"NL", "#">>, i + 3) > 0

\* The value parse_diagnosis stores for a matched section (doctor.py:142-145).
SectionValue(text, key) == Strip(RemoveAll(RemoveAll(Strip(SectionGroup(text, key)), Marker(key)), <<"#">>))

\* A replacement of parse_diagnosis that emits every key, "" when not found.
ParseDiagnosisAllKeys(diagnosis) == LET text == diagnosis \o <<"NL", "#">>
                                    IN [key \in KeySet |-> IF SectionFound(text, key) THEN SectionValue(text, key) ELSE <<>>]

\* Doctor.parse_diagnosis
ParseDiagnosis(diagnosis) == LET text == diagnosis \o <<"NL", "#">>
                                 found == {key \in KeySet : SectionFound(text, key)}
                             IN [key \in found |-> SectionValue(text, key)]

\* Doctor.load_diagnosis(diagnosis=<str>, patient_id): merge the parsed sections.
LoadDiagnosis(current, response) == DictUpdate(current, ParseDiagnosis(response))

\* Doctor._format_diagnosis
RECURSIVE FormatFrom(_, _)
FormatFrom(diagnosis_dict, n) == IF n > Len(DiagnosisKeys) THEN <<>> ELSE LET key == DiagnosisKeys[n]
                                                                              value == DictGet(diagnosis_dict, key, <<>>)
                                                                          IN (IF value # <<>> THEN Marker(key) \o <<"NL">> \o value \o <<"NL", "NL">> ELSE <<>>) \o FormatFrom(diagnosis_dict, n + 1)

FormatDiagnosis(diagnosis_dict) == RStrip(FormatFrom(diagnosis_dict, 1))

\* Doctor.revise_diagnosis_by_others, either mode: the reply is merged by load_diagnosis
\* (doctor.py:315-318 and 385-388).
ReviseDiagnosisByOthers(current, response) == LoadDiagnosis(current, response)

\* Doctor.revise_diagnosis_with_new_info: parse and update (doctor.py:457-459).
ReviseDiagnosisWithNewInfo(current, response) == DictUpdate(current, ParseDiagnosis(response))

(***************************************************************************)
(* The gateway request a doctor builds for a revision, as the sequence of  *)
(* the variable parts placed in the system message and the user content:   *)
(*   <<"name", d>>        the name of doctor d                             *)
(*   <<"field", d, key>>  doctor d's diagnosis field key                   *)
(*   <<"critique">>       the host critique passed by the caller           *)
(* The fixed template text carries no information and is left out.         *)
(***************************************************************************)

OwnFields(self) == [n \in 1..Len(DiagnosisKeys) |-> <<"field", self, DiagnosisKeys[n]>>]

\* One peer's block in the user content (doctor.py:288-294 and 356-362).
PeerBlock(doctor) == << <<"name", doctor>>, <<"field", doctor, "diagnosis_result">>, <<"field", doctor, "diagnosis_basis">>, <<"field", doctor, "treatment_plan">> >>

RECURSIVE PeerBlocks(_)
PeerBlocks(doctors) == IF doctors = <<>> THEN <<>> ELSE PeerBlock(Head(doctors)) \o PeerBlocks(Tail(doctors))

\* Doctor.revise_diagnosis_by_others_in_parallel: the critique is added unless it is
\* empty or one of the two bare markers.
RevisePromptInParallel(self, doctors, host_critique) == OwnFields(self) \o PeerBlocks(doctors) \o (IF host_critique # <<>> /\ host_critique \notin {<<"#CONTINUE#">>, <<"#END#">>} THEN << <<"critique">> >> ELSE <<>>)

\* Doctor.revise_diagnosis_by_others_in_parallel_with_critique: the system message
\* names the doctor itself and the critique is always added.
RevisePromptWithCritique(self, doctors, host_critique) == << <<"name", self>> >> \o OwnFields(self) \o PeerBlocks(doctors) \o << <<"critique">> >>

\* Doctor.revise_diagnosis_by_others: dispatch on the discussion mode.
RevisePrompt(self, doctors, host_critique, discussion_mode) == IF discussion_mode = "Parallel" THEN RevisePromptInParallel(self, doctors, host_critique) ELSE RevisePromptWithCritique(self, doctors, host_critique)

(***************************************************************************)
(* agents/patient.py.  "<E>" is the tag <对检查员讲>, "<D>" the tag <对医生讲>. *)
(***************************************************************************)

\* str.split(sep) for a one-token separator: the sequence of pieces.
RECURSIVE Split(_, _)
Split(text, sep) == LET i == Find(text, <<sep>>)
                    IN IF i = 0 THEN <<text>> ELSE <<SubSeq(text, 1, i - 1)>> \o Split(SubSeq(text, i + 1, Len(text)), sep)

\* str.replace(sep, "")
RemoveToken(text, sep) == SelectSeq(text, LAMBDA x : x # sep)

\* A parse that does not look for both tags.
ParseRoleContentNoDual(responese) == LET r == Strip(responese)
                                     IN IF Contains(r, <<"<E>">>)
                                        THEN [speak_to |-> "examiner", content |-> Strip(RemoveToken(r, "<E>")), reporter |-> <<>>, doctor |-> <<>>]
                                        ELSE [speak_to |-> "doctor", content |-> Strip(RemoveToken(r, "<D>")), reporter |-> <<>>, doctor |-> <<>>]

\* A parse that names no target for a reply without a tag.
ParseRoleContentTaggedOnly(responese) == LET r == Strip(responese)
                                         IN IF Contains(r, <<"<E>">>)
                                            THEN [speak_to |-> "examiner", content |-> Strip(RemoveToken(r, "<E>")), reporter |-> <<>>, doctor |-> <<>>]
                                            ELSE IF Contains(r, <<"<D>">>)
                                                 THEN [speak_to |-> "doctor", content |-> Strip(RemoveToken(r, "<D>")), reporter |-> <<>>, doctor |-> <<>>]
                                                 ELSE [speak_to |-> "", content |-> r, reporter |-> <<>>, doctor |-> <<>>]

\* Patient.parse_role_content
ParseRoleContent(responese) == LET r == Strip(responese)
                                   parts == Split(r, "<E>")
                                   before_reporter == Strip(parts[1])
                                   after_reporter == IF Len(parts) > 1 THEN parts[2] ELSE <<>>
                                   dual == IF Contains(after_reporter, <<"<D>">>)
                                           THEN [reporter |-> Strip(Split(after_reporter, "<D>")[1]), doctor |-> Strip(Split(after_reporter, "<D>")[2])]
                                           ELSE IF Contains(before_reporter, <<"<D>">>)
                                                THEN [reporter |-> Strip(after_reporter), doctor |-> Strip(Split(before_reporter, "<D>")[2])]
                                                ELSE [reporter |-> Strip(after_reporter), doctor |-> <<>>]
                               IN IF Contains(r, <<"<E>">>) /\ Contains(r, <<"<D>">>)
                                  THEN [speak_to |-> "dual", content |-> <<>>, reporter |-> dual.reporter, doctor |-> dual.doctor]
                                  ELSE IF Contains(r, <<"<E>">>)
                                       THEN [speak_to |-> "examiner", content |-> Strip(RemoveToken(r, "<E>")), reporter |-> <<>>, doctor |-> <<>>]
                                       ELSE [speak_to |-> "doctor", content |-> Strip(RemoveToken(r, "<D>")), reporter |-> <<>>, doctor |-> <<>>]

(***************************************************************************)
(* agents/host.py.  Tokens of the host's texts:                            *)
(*   "#END#" = #结束#, "#CONTINUE#" = #继续#, "(a)" = the text (a),          *)
(*   "#REASON#" = #理由#, "#ACTION#" = #行动#, "#QUESTION#" = #问题#,        *)
(*   "ASK_PATIENT" = 询问患者, "END_WORD" = 结束, "GO_ON" = 继续讨论,        *)
(*   "#SUMMARY#" = #初步汇总#, "#CONSISTENCY#" = #一致性分析#,               *)
(*   "#ASK#" = #是否需要询问患者#, "NOT_NEEDED" = 不需要,                    *)
(*   "CONSISTENT" = 完全一致, "##symptom##", "##examination##".            *)
(***************************************************************************)

\* The tokens whose text contains the character #.
HashTokens == {"#", "#END#", "#CONTINUE#", "#REASON#", "#ACTION#", "#QUESTION#", "#SUMMARY#", "#CONSISTENCY#", "#ASK#", "##symptom##", "##examination##"}

\* None, as a text (str.format renders it as the word None).
NoneText == <<"None">>

\* The group of r"<start>(.*?)(?=#|$)": what follows the first start token up to
\* the next token holding a # or the end of the text.
RECURSIVE UpToHash(_)
UpToHash(text) == IF text = <<>> \/ Head(text) \in HashTokens THEN <<>> ELSE <<Head(text)>> \o UpToHash(Tail(text))

\* The group of r"<start>(.*?)(?:<stop>|$)".
RECURSIVE UpToToken(_, _)
UpToToken(text, stop) == IF text = <<>> \/ Head(text) = stop THEN <<>> ELSE <<Head(text)>> \o UpToToken(Tail(text), stop)

\* text after the first occurrence of the token start
After(text, start) == SubSeq(text, Find(text, <<start>>) + 1, Len(text))

\* re.sub(r'.*\(a\)', '(a)', judgement, flags=re.DOTALL): the greedy match runs to
\* the last (a).
RECURSIVE FromLastA(_)
FromLastA(text) == IF ~Contains(text, <<"(a)">>) THEN text ELSE IF Contains(After(text, "(a)"), <<"(a)">>) THEN FromLastA(After(text, "(a)")) ELSE <<"(a)">> \o After(text, "(a)")

\* measure_agreement with the continue marker looked for first.
MeasureAgreementContinueFirst(judgement, critique_reply, discussion_mode) == IF Contains(judgement, <<"#CONTINUE#">>)
                                                                              THEN IF discussion_mode = "Parallel"
                                                                                   THEN [raised |-> FALSE, value |-> <<"#CONTINUE#">>, gateway_calls |-> 1]
                                                                                   ELSE [raised |-> FALSE, value |-> FromLastA(critique_reply), gateway_calls |-> 2]
                                                                              ELSE IF Contains(judgement, <<"#END#">>)
                                                                                   THEN [raised |-> FALSE, value |-> <<"#END#">>, gateway_calls |-> 1]
                                                                                   ELSE [raised |-> TRUE, value |-> judgement, gateway_calls |-> 1]

\* Host.measure_agreement, given the gateway's judgement and, for the second
\* call of Parallel_with_Critique, its critique reply.  raised: the method raised.
MeasureAgreement(judgement, critique_reply, discussion_mode) == IF Contains(judgement, <<"#END#">>)
                                                                 THEN [raised |-> FALSE, value |-> <<"#END#">>, gateway_calls |-> 1]
                                                                 ELSE IF Contains(judgement, <<"#CONTINUE#">>)
                                                                      THEN IF discussion_mode = "Parallel"
                                                                           THEN [raised |-> FALSE, value |-> <<"#CONTINUE#">>, gateway_calls |-> 1]
                                                                           ELSE [raised |-> FALSE, value |-> FromLastA(critique_reply), gateway_calls |-> 2]
                                                                      ELSE [raised |-> TRUE, value |-> judgement, gateway_calls |-> 1]

\* Host._parse_host_decision
ParseHostDecision(response) == LET r == Strip(response)
                                   action == IF Contains(r, <<"ASK_PATIENT">>) THEN "query_patient" ELSE IF Contains(r, <<"END_WORD">>) THEN "finalize" ELSE "continue_discussion"
                               IN [action |-> action,
                                   reason |-> IF Contains(r, <<"#REASON#">>) THEN Strip(UpToHash(After(r, "#REASON#"))) ELSE <<>>,
                                   query |-> IF Contains(r, <<"#QUESTION#">>) THEN Strip(UpToHash(After(r, "#QUESTION#"))) ELSE <<>>,
                                   target |-> IF action = "query_patient" THEN "patient" ELSE ""]

\* Host.parse_diagnosis, with "<done>" the marker <诊断完成>: for each of the three
\* keys the group of r"#key#(.*?)(?:#|$)", stripped, without a marker at its end;
\* the empty text when the section is not found.
HostParseDiagnosis(response0) == LET response == Strip(response0) \o <<"NL", "NL">>
                                     group(key) == Strip(UpToToken(SubSeq(response, Find(response, Marker(key)) + 3, Len(response)), "#"))
                                     unmarked(value) == IF value # <<>> /\ value[Len(value)] = "<done>" THEN Strip(SubSeq(value, 1, Len(value) - 1)) ELSE value
                                 IN [key \in {"diagnosis_result", "diagnosis_basis", "treatment_plan"} |-> IF Contains(response, Marker(key)) THEN unmarked(group(key)) ELSE <<>>]

\* Host.parse_symptom_and_examination, the two fields finalize_consultation reads
\* (the keys of the queries to the patient and the reporter are left out).  A
\* section is the group of r"#key#(.*?)\n\n" on the stripped response followed by
\* a blank line, without its markers and # characters; when there is no match the
\* group of r"##key##(.*?)(?:##|$)" is taken, and the empty text when there is
\* none.  The method holds no raise.
ParseSymptomAndExamination(response0) == LET response == Strip(response0) \o <<"NL", "NL">>
                                             start(key) == Find(response, Marker(key))
                                             group(key) == SubSeq(response, start(key) + 3, FindFrom(response, <<"NL", "NL">>, start(key) + 3) - 1)
                                             double(key) == <<"#">> \o Marker(key) \o <<"#">>
                                             rest(key) == SubSeq(response, Find(response, double(key)) + 5, Len(response))
                                             alternative(key) == Strip(IF Contains(rest(key), <<"#", "#">>) THEN SubSeq(rest(key), 1, Find(rest(key), <<"#", "#">>) - 1) ELSE rest(key))
                                         IN [key \in {"symptom", "examination"} |->
                                               IF start(key) > 0 /\ FindFrom(response, <<"NL", "NL">>, start(key) + 3) > 0
                                               THEN Strip(RemoveAll(RemoveAll(group(key), Marker(key)), <<"#">>))
                                               ELSE IF Contains(response, double(key)) THEN alternative(key) ELSE <<>>]

\* The number of characters of a text: a token is one character, except the
\* token for a question of more than five characters.
RECURSIVE CharLen(_)
CharLen(text) == IF text = <<>> THEN 0 ELSE (IF Head(text) = "long_question" THEN 8 ELSE 1) + CharLen(Tail(text))

\* Host.get_initial_summary_from_doctors, the request: for every doctor its name and
\* its own symptom and examination text; of the patient only the id is read.
\* diagnoses[d][id] is doctor d's record for patient id.
RECURSIVE SummaryRequestFrom(_, _, _)
SummaryRequestFrom(diagnoses, patient, d) == IF d > Len(diagnoses) THEN <<>> ELSE
                                                LET rec == diagnoses[d][patient.id]
                                                    field(key) == IF key \in DOMAIN rec THEN << <<"field", d, key, rec[key]>> >> ELSE <<>>
                                                IN << <<"name", d>> >> \o field("symptom") \o field("examination") \o SummaryRequestFrom(diagnoses, patient, d + 1)

\* The request of the deprecated summary, which also sent the hidden record.
GetInitialSummaryRequestWithRecords(diagnoses, patient) == SummaryRequestFrom(diagnoses, patient, 1) \o << <<"medical_records", patient.medical_records>> >>

GetInitialSummaryRequest(diagnoses, patient) == SummaryRequestFrom(diagnoses, patient, 1)

\* Host.get_initial_summary_from_doctors, the parse of the gateway's response.
ParseInitialSummary(response0) == LET response == Strip(response0) \o <<"NL", "NL">>
                                      initial_summary == IF Contains(response, <<"#SUMMARY#">>) THEN Strip(UpToToken(After(response, "#SUMMARY#"), "#CONSISTENCY#")) ELSE <<>>
                                      inconsistencies0 == IF Contains(response, <<"#CONSISTENCY#">>) THEN Strip(UpToToken(After(response, "#CONSISTENCY#"), "#ASK#")) ELSE <<>>
                                      query_text == Strip(UpToHash(After(response, "#ASK#")))
                                  IN [initial_summary |-> IF initial_summary # <<>> THEN initial_summary ELSE response,
                                      inconsistencies |-> IF Contains(inconsistencies0, <<"CONSISTENT">>) THEN NoneText ELSE inconsistencies0,
                                      query_to_patient |-> IF Contains(response, <<"#ASK#">>) /\ ~Contains(query_text, <<"NOT_NEEDED">>) /\ CharLen(query_text) > 5 THEN query_text ELSE NoneText,
                                      raw_response |-> response]

(***************************************************************************)
(* hospital/collaborative_consultation_star.py: one patient's _run.        *)
(***************************************************************************)

\* --number_of_doctors
NumDoctors == 2

\* The bound on --max_discussion_turn.
MaxDiscussionTurn == 2

Doctors == 1..NumDoctors

max_discussion_turn == MaxDiscussionTurn

\* The patient of the run: its id, and the hidden record only the reporter may read.
ThePatient == [id |-> "P1", medical_records |-> <<"mr1">>]

\* The replies the gateway may give to the forced structured-summary request.
StructuredSummaryReplies == { <<"#", "symptom", "#", "NL", "s", "NL", "#", "examination", "#", "NL", "e", "NL", "#", "diagnosis_result", "#", "NL", "dx1", "NL", "#", "diagnosis_basis", "#", "NL", "b1", "NL", "#", "treatment_plan", "#", "NL", "t1", "NL", "<done>">>,
                              <<"#", "symptom", "#", "NL", "s", "NL", "#", "examination", "#", "NL", "e", "NL", "#", "diagnosis_result", "#", "NL", "dx1", "NL", "#", "diagnosis_basis", "#", "NL", "b1">> }

\* The outcomes of a doctor's initial conversation: whether the reporter was asked
\* for examination results on the way, and the reply to the structured-summary request.
InitialConversations == {[exams |-> TRUE, reply |-> r] : r \in {x \in StructuredSummaryReplies : Contains(x, <<"<done>">>)}} \cup {[exams |-> FALSE, reply |-> r] : r \in {x \in StructuredSummaryReplies : ~Contains(x, <<"<done>">>)}}

\* The replies the gateway may give to a revision request.
RevisionReplies == { <<"#", "diagnosis_result", "#", "NL", "dx2">>,
                     <<"#", "diagnosis_result", "#", "NL", "dx3", "NL">> }

\* The gateway's judgements for measure_agreement and its critique replies.
Judgements == {<<"#END#">>, <<"#CONTINUE#">>, <<"unclear">>}

CritiqueReplies == {<<"well", "(a)", "x">>, <<"(a)", "#END#", "is", "near">>}

\* The gateway's responses to analyze_discussion_state.
AnalysisResponses == { <<"#REASON#", "NL", "r", "NL", "#ACTION#", "NL", "ASK_PATIENT", "NL", "#QUESTION#", "NL", "q">>,
                       <<"#REASON#", "NL", "r", "NL", "#ACTION#", "NL", "ASK_PATIENT">>,
                       <<"#REASON#", "NL", "r", "NL", "#ACTION#", "NL", "END_WORD">>,
                       <<"#REASON#", "NL", "r", "NL", "#ACTION#", "NL", "GO_ON">> }

\* The patient's answers to a host query.
PatientAnswers == {<<"ans">>, <<"<E>", "x">>, <<"<E>", "x", "<D>", "y">>}

\* The gateway's responses to the initial summary request.
SummaryResponses == { <<"#SUMMARY#", "NL", "##symptom##", "s", "##examination##", "e", "NL", "#CONSISTENCY#", "CONSISTENT", "NL", "#ASK#", "NOT_NEEDED">>,
                      <<"#SUMMARY#", "NL", "##symptom##", "s", "##examination##", "e", "NL", "#CONSISTENCY#", "differ", "NL", "#ASK#", "long_question">> }

\* The parses of the gateway's replies above, each computed once:
\* Host._parse_host_decision of every analysis response (and of the empty text),
\* Host.measure_agreement of every judgement, critique reply and mode, and
\* Patient.parse_role_content of every answer of the patient (and of None).
ParsedHostDecision == [response \in AnalysisResponses \cup {<<>>} |-> ParseHostDecision(response)]

MeasuredAgreement == [judgement \in Judgements |-> [critique_reply \in CritiqueReplies \cup {<<>>} |-> [mode \in {"Parallel", "Parallel_with_Critique"} |-> MeasureAgreement(judgement, critique_reply, mode)]]]

ParsedRoleContent == [responese \in PatientAnswers \cup {NoneText} |-> ParseRoleContent(responese)]

VARIABLES pc, discussion_mode, diagnosis, initial_dialog_histories, initial_summary_result, host_critique_for_revision, diagnosis_in_discussion, additional_info_gathered, host_measurement, host_decision, discussion_ended, final_turn_number, pending_patient_info, turn_new_info, final_diagnosis, k, calls, revision_requests, log, rev, twin, batch, file, ledger, doc, engine, role, host, consult

runVars == <<pc, discussion_mode, diagnosis, initial_dialog_histories, initial_summary_result, host_critique_for_revision, diagnosis_in_discussion, additional_info_gathered, host_measurement, host_decision, discussion_ended, final_turn_number, pending_patient_info, turn_new_info, final_diagnosis, k, calls, revision_requests, log>>

\* The variables of the specifications of the log file, the token ledgers, the
\* doctor's per-patient state, the gateway, the patient's reply, the host's
\* methods and the initial consultations.
restVars == <<file, ledger, doc, engine, role, host, consult>>

vars == <<runVars, rev, twin, batch, restVars>>

\* One call of an agent's method: the method, the doctor (0: none) and one argument or result.
Call(op, doctor, arg) == [op |-> op, doctor |-> doctor, arg |-> arg]

\* Doctor.get_diagnosis_by_patient_id(patient_id): the dict object held in
\* doctor.diagnosis[patient_id] itself (no copy is made), as a reference.
GetDiagnosisByPatientId(doctor, patient_id) == <<"ref", doctor, patient_id>>

\* What a reference shows when it is read, e.g. when the record is serialized.
Deref(ref, heap) == heap[ref[2]][ref[3]]

\* The per-doctor entries of a turn record (collaborative_consultation_star.py:606-612).
DiagnosisInTurn(patient_id) == [d \in Doctors |-> [doctor_id |-> d - 1, diagnosis |-> GetDiagnosisByPatientId(d, patient_id)]]

\* A dict-valued variable that holds None.
NoneDict == [None |-> <<>>]

\* A host decision not yet computed.
NoDecision == [action |-> "", reason |-> <<>>, query |-> <<>>, target |-> ""]

\* The record of a discussion turn (the keys host_analysis and received_from, which
\* nothing reads, are left out).  revised_diagnoses is set on the turn-1 record only.
TurnRecord(turn, critique, action, new_information, final) == [turn |-> turn, diagnosis_in_turn |-> DiagnosisInTurn(ThePatient.id), host_critique |-> critique, host_decision |-> action, new_information |-> new_information, final_diagnosis_by_host |-> final, revised_diagnoses |-> <<>>]

\* The parsed reply is stored as it is.
KeepAsParsed(diagnosis_dict) == diagnosis_dict

\* _conduct_initial_consultation, lines 501-508: every required field is present.
EnsureFields(diagnosis_dict) == [key \in KeySet |-> IF key \in DOMAIN diagnosis_dict /\ diagnosis_dict[key] # <<>> THEN diagnosis_dict[key] ELSE <<>>]

\* The peers STAR passes to revise_diagnosis_by_others (lines 743 and 891).
AllOtherDoctors(self) == SelectSeq([d \in Doctors |-> d], LAMBDA d : d # self)

StarPeers(self) == <<>>

\* A final diagnosis without the symptoms and the examinations.
FinalizeWithoutSummary == [key \in {"diagnosis_result", "diagnosis_basis", "treatment_plan"} |-> <<"final">>]

\* Host.finalize_consultation: the record with the five keys.
FinalizeConsultation == [key \in KeySet |-> <<"final">>]

\* The locals of _run and the doctors' records before anything has run.
RunFresh == /\ diagnosis = [d \in Doctors |-> [p \in {ThePatient.id} |-> EmptyDict]]
            /\ initial_dialog_histories = <<>>
            /\ initial_summary_result = [initial_summary |-> NoneText, inconsistencies |-> NoneText, query_to_patient |-> NoneText, raw_response |-> NoneText]
            /\ host_critique_for_revision = <<>>
            /\ diagnosis_in_discussion = <<>>
            /\ additional_info_gathered = <<>>
            /\ host_measurement = NoneText
            /\ host_decision = NoDecision
            /\ discussion_ended = FALSE
            /\ final_turn_number = 0
            /\ pending_patient_info = NoneText
            /\ turn_new_info = NoneText
            /\ final_diagnosis = NoneDict
            /\ k = 0
            /\ calls = <<>>
            /\ revision_requests = {}
            /\ log = <<>>

\* --discussion_mode
DiscussionModes == {"Parallel", "Parallel_with_Critique"}

RunInit == /\ pc = "consult"
           /\ discussion_mode \in DiscussionModes
           /\ RunFresh

\* No patient is being run.
RunAtRest == /\ pc = "idle"
             /\ discussion_mode = "Parallel"
             /\ RunFresh

\* Lines 562-575 with _conduct_initial_consultation for the next doctor.  The
\* conversation loop is reduced to what the discussion reads of it: whether the
\* reporter was asked for examination results, and the reply to the forced
\* structured-summary request, which is parsed, completed and stored.
InitialConsultation == /\ pc = "consult"
                       /\ LET d == Len(initial_dialog_histories) + 1
                          IN \E conversation \in InitialConversations :
                                LET diagnosis_dict == EnsureFields(ParseDiagnosis(conversation.reply))
                                IN /\ diagnosis[d][ThePatient.id] = EmptyDict
                                   /\ diagnosis' = [diagnosis EXCEPT ![d][ThePatient.id] = DictUpdate(@, diagnosis_dict)]
                                   /\ initial_dialog_histories' = Append(initial_dialog_histories, [doctor_id |-> d - 1, initial_diagnosis |-> diagnosis_dict])
                                   /\ calls' = calls \o (IF conversation.exams THEN <<Call("reporter.speak", d, ThePatient.medical_records)>> ELSE <<>>) \o <<Call("doctor.speak", d, conversation.reply)>>
                                   /\ pc' = IF d = NumDoctors THEN "summary" ELSE "consult"
                       /\ UNCHANGED <<rev, twin, batch, restVars, discussion_mode, initial_summary_result, host_critique_for_revision, diagnosis_in_discussion, additional_info_gathered, host_measurement, host_decision, discussion_ended, final_turn_number, pending_patient_info, turn_new_info, final_diagnosis, k, revision_requests, log>>

\* Lines 577-598: get_initial_summary_from_doctors, then
\* finalize_symptom_and_examination, which asks the patient when a query was made.
InitialSummary == /\ pc = "summary"
                  /\ \E response \in SummaryResponses :
                        LET result == ParseInitialSummary(response)
                        IN /\ initial_summary_result' = result
                           /\ calls' = calls \o <<Call("host.get_initial_summary_from_doctors", 0, <<>>)>>
                                             \o (IF result.query_to_patient # NoneText THEN <<Call("patient.speak", 0, result.query_to_patient)>> ELSE <<>>)
                                             \o <<Call("host.finalize_symptom_and_examination", 0, result.initial_summary)>>
                  /\ pc' = "turn1"
                  /\ UNCHANGED <<rev, twin, batch, restVars, discussion_mode, diagnosis, initial_dialog_histories, host_critique_for_revision, diagnosis_in_discussion, additional_info_gathered, host_measurement, host_decision, discussion_ended, final_turn_number, pending_patient_info, turn_new_info, final_diagnosis, k, revision_requests, log>>

\* The critique replies that matter: a second gateway call is made only in
\* Parallel_with_Critique after a bare continue judgement.
CritiqueRepliesFor(judgement) == IF discussion_mode = "Parallel_with_Critique" /\ ~Contains(judgement, <<"#END#">>) /\ Contains(judgement, <<"#CONTINUE#">>) THEN CritiqueReplies ELSE {<<>>}

\* Lines 670-708: the host decision of turn 1.
InitialHostDecision(measurement, analysis, new_info) == IF measurement = <<"#END#">>
                                                        THEN IF new_info # NoneText THEN "update_with_patient_info"
                                                             ELSE IF analysis.action = "query_patient" THEN "begin_discussion"
                                                             ELSE IF analysis.action = "finalize" THEN "finalize"
                                                             ELSE "begin_discussion"
                                                        ELSE "begin_discussion"

\* Lines 600-723 and 734: turn 1, phase 1.  The doctors' initial diagnoses are the
\* reports, the host measures agreement and analyses, asks the patient when the
\* doctors agree and the analysis carries a question, and the turn-1 record is
\* appended.  Of the analysis the reason is kept, which phase 2 passes to the
\* doctors as host_critique_for_revision.
Turn1Report == /\ pc = "turn1"
               /\ \E judgement \in Judgements, response \in AnalysisResponses :
                     \E critique_reply \in CritiqueRepliesFor(judgement) :
                        LET m == MeasuredAgreement[judgement][critique_reply][discussion_mode]
                            analysis == ParsedHostDecision[response]
                            query_text == Strip(analysis.query)
                            asks == m.value = <<"#END#">> /\ analysis.action = "query_patient" /\ query_text # <<>>
                        IN IF m.raised
                           THEN /\ pc' = "aborted"
                                /\ calls' = Append(calls, Call("host.measure_agreement", 0, <<"raise">>))
                                /\ UNCHANGED <<host_measurement, host_critique_for_revision, additional_info_gathered, diagnosis_in_discussion>>
                           ELSE \E new_info \in (IF asks THEN PatientAnswers ELSE {NoneText}) :
                                   LET turn_1_new_info == IF asks THEN <<"PATIENT_INFO">> \o new_info ELSE NoneText
                                   IN /\ pc' = "turn1_phase2"
                                      /\ host_measurement' = m.value
                                      /\ host_critique_for_revision' = analysis.reason
                                      /\ additional_info_gathered' = IF asks THEN Append(additional_info_gathered, [turn |-> 1, type |-> "patient_query", query |-> query_text, response |-> new_info]) ELSE additional_info_gathered
                                      /\ calls' = calls \o <<Call("host.measure_agreement", 0, m.value), Call("host.analyze_discussion_state", 0, <<>>)>>
                                                        \o (IF asks THEN <<Call("patient.speak", 0, new_info)>> ELSE <<>>)
                                      /\ diagnosis_in_discussion' = Append(diagnosis_in_discussion, TurnRecord(1, m.value, InitialHostDecision(m.value, analysis, turn_1_new_info), turn_1_new_info, NoneDict))
               /\ UNCHANGED <<rev, twin, batch, restVars, discussion_mode, diagnosis, initial_dialog_histories, initial_summary_result, host_decision, discussion_ended, final_turn_number, pending_patient_info, turn_new_info, final_diagnosis, k, revision_requests, log>>

\* The state after every doctor has called revise_diagnosis_by_others with the
\* peers STAR passes and the critique, the gateway answering replies[d] to doctor d.
RevisedByOthers(replies) == [d \in Doctors |-> [diagnosis[d] EXCEPT ![ThePatient.id] = ReviseDiagnosisByOthers(@, replies[d])]]

RevisedWithNewInfo(replies) == [d \in Doctors |-> [diagnosis[d] EXCEPT ![ThePatient.id] = ReviseDiagnosisWithNewInfo(@, replies[d])]]

ByOthersCalls(host_critique) == [d \in Doctors |-> Call("doctor.revise_diagnosis_by_others", d, host_critique)]

NewInfoCalls(new_info) == [d \in Doctors |-> Call("doctor.revise_diagnosis_with_new_info", d, new_info)]

\* The requests the doctors send to the gateway in one round of revise_diagnosis_by_others.
ByOthersRequests(host_critique) == {[doctor |-> d, peers |-> StarPeers(d), request |-> RevisePrompt(d, StarPeers(d), host_critique, discussion_mode)] : d \in Doctors}

\* Where the for loop of line 803 goes with index i: into the body, or past the loop.
LoopPc(i) == IF i < max_discussion_turn THEN "loop" ELSE "after"

\* Lines 725-801: turn 1, phase 2.  After a disagreement the doctors revise on the
\* host's analysis and the loop is entered; after an agreement with a patient
\* answer they revise with the answer; after an agreement the else branch of line
\* 1165 is taken.
Turn1Phase2 == /\ pc = "turn1_phase2"
               /\ LET record == diagnosis_in_discussion[1]
                      revised == DiagnosisInTurn(ThePatient.id)
                  IN \E replies \in [Doctors -> RevisionReplies] :
                        IF host_measurement # <<"#END#">> /\ record.host_decision = "begin_discussion"
                        THEN /\ diagnosis' = RevisedByOthers(replies)
                             /\ calls' = calls \o ByOthersCalls(host_critique_for_revision)
                             /\ revision_requests' = revision_requests \cup ByOthersRequests(host_critique_for_revision)
                             /\ diagnosis_in_discussion' = [diagnosis_in_discussion EXCEPT ![1].revised_diagnoses = revised]
                        ELSE IF host_measurement = <<"#END#">> /\ record.host_decision = "update_with_patient_info"
                        THEN /\ diagnosis' = RevisedWithNewInfo(replies)
                             /\ calls' = calls \o NewInfoCalls(record.new_information)
                             /\ diagnosis_in_discussion' = [diagnosis_in_discussion EXCEPT ![1].revised_diagnoses = revised]
                             /\ UNCHANGED revision_requests
                        ELSE /\ replies = [d \in Doctors |-> CHOOSE r \in RevisionReplies : TRUE]
                             /\ UNCHANGED <<diagnosis, calls, revision_requests, diagnosis_in_discussion>>
               /\ IF host_measurement # <<"#END#">>
                  THEN /\ discussion_ended' = FALSE
                       /\ final_turn_number' = 1
                       /\ pending_patient_info' = NoneText
                       /\ k' = 0
                       /\ pc' = LoopPc(0)
                  ELSE /\ pc' = "direct"
                       /\ UNCHANGED <<discussion_ended, final_turn_number, pending_patient_info, k>>
               /\ UNCHANGED <<rev, twin, batch, restVars, discussion_mode, initial_dialog_histories, initial_summary_result, host_critique_for_revision, additional_info_gathered, host_measurement, host_decision, turn_new_info, final_diagnosis, log>>

\* Lines 809-860: the iteration that incorporates the patient's answer of the
\* previous iteration and schedules the finalization.
LoopPendingUpdate == /\ pc = "loop"
                     /\ pending_patient_info # NoneText
                     /\ \E replies \in [Doctors -> RevisionReplies] :
                           /\ diagnosis' = RevisedWithNewInfo(replies)
                           /\ calls' = calls \o NewInfoCalls(pending_patient_info)
                     /\ host_measurement' = <<"#END#">>
                     /\ diagnosis_in_discussion' = Append(diagnosis_in_discussion, TurnRecord(k + 2, <<"#END#">>, "finalize_with_patient_info", NoneText, NoneDict))
                     /\ discussion_ended' = TRUE
                     /\ final_turn_number' = (k + 2) + 1
                     /\ pending_patient_info' = NoneText
                     /\ pc' = "check"
                     /\ UNCHANGED <<rev, twin, batch, restVars, discussion_mode, initial_dialog_histories, initial_summary_result, host_critique_for_revision, additional_info_gathered, host_decision, turn_new_info, final_diagnosis, k, revision_requests, log>>

\* Lines 862-909: a normal iteration up to the revision.  The host analyses the
\* discussion; on "finalize" the end of the discussion is scheduled; the doctors
\* revise on the reason of the analysis.
LoopRevise == /\ pc = "loop"
              /\ pending_patient_info = NoneText
              /\ \E response \in AnalysisResponses, replies \in [Doctors -> RevisionReplies] :
                    LET decision == ParsedHostDecision[response]
                    IN /\ host_decision' = decision
                       /\ discussion_ended' = IF decision.action = "finalize" THEN TRUE ELSE discussion_ended
                       /\ final_turn_number' = IF decision.action = "finalize" THEN k + 2 ELSE final_turn_number
                       /\ diagnosis' = RevisedByOthers(replies)
                       /\ calls' = calls \o <<Call("host.analyze_discussion_state", 0, <<>>)>> \o ByOthersCalls(decision.reason)
                       /\ revision_requests' = revision_requests \cup ByOthersRequests(decision.reason)
              /\ pc' = "measure"
              /\ UNCHANGED <<rev, twin, batch, restVars, discussion_mode, initial_dialog_histories, initial_summary_result, host_critique_for_revision, diagnosis_in_discussion, additional_info_gathered, host_measurement, pending_patient_info, turn_new_info, final_diagnosis, k, log>>

\* What the reporter answers to a request for examination results.
ReporterResponse == <<"exam_result">>

\* Lines 960-1023: the routing of the patient's answer to a host query.
\* reporter: whether reporter.speak is called; new_info: the information kept.
RoutePatientResponse(patient_response) == LET parsed == ParsedRoleContent[patient_response]
                                          IN IF parsed.speak_to = "dual"
                                             THEN IF parsed.reporter # <<>>
                                                  THEN [reporter |-> TRUE, new_info |-> IF parsed.doctor # <<>> THEN parsed.doctor ELSE patient_response]
                                                  ELSE [reporter |-> FALSE, new_info |-> patient_response]
                                             ELSE IF parsed.speak_to = "examiner"
                                             THEN [reporter |-> TRUE, new_info |-> <<"PATIENT_ASKS_EXAM">> \o parsed.content \o <<"NL", "REPORTER_REPLY">> \o ReporterResponse]
                                             ELSE [reporter |-> FALSE, new_info |-> patient_response]

\* Lines 1047-1093: the decision of a normal iteration.
TurnDecision(consensus_reached, new_info, consensus_analysis) == IF consensus_reached
                                                                 THEN IF new_info # NoneText THEN "update_with_patient_info"
                                                                      ELSE IF consensus_analysis.action = "query_patient" THEN "continue_discussion"
                                                                      ELSE IF consensus_analysis.action = "finalize" THEN "finalize_after_discussion"
                                                                      ELSE "continue_discussion"
                                                                 ELSE "continue_discussion"

\* Lines 911-1106: the rest of a normal iteration.  The host measures the agreement;
\* on consensus it analyses again and may ask the patient, whose answer may reach
\* the reporter; the decision is taken and the record of the turn is appended.
LoopMeasure == /\ pc = "measure"
               /\ \E judgement \in Judgements :
                     \E critique_reply \in CritiqueRepliesFor(judgement) :
                        LET m == MeasuredAgreement[judgement][critique_reply][discussion_mode]
                            consensus_reached == Contains(m.value, <<"#END#">>)
                        IN IF m.raised
                           THEN /\ pc' = "aborted"
                                /\ calls' = Append(calls, Call("host.measure_agreement", 0, <<"raise">>))
                                /\ UNCHANGED <<host_measurement, additional_info_gathered, diagnosis_in_discussion, turn_new_info, pending_patient_info, discussion_ended, final_turn_number>>
                           ELSE \E response \in (IF consensus_reached THEN AnalysisResponses ELSE {<<>>}) :
                                   LET consensus_analysis == ParsedHostDecision[response]
                                       query_text == Strip(consensus_analysis.query)
                                       asks == consensus_reached /\ consensus_analysis.action = "query_patient" /\ query_text # <<>>
                                   IN \E patient_response \in (IF asks THEN PatientAnswers ELSE {NoneText}) :
                                         LET routed == RoutePatientResponse(patient_response)
                                             new_info == IF asks THEN <<"PATIENT_INFO">> \o routed.new_info ELSE NoneText
                                             action == TurnDecision(consensus_reached, new_info, consensus_analysis)
                                         IN /\ pc' = "check"
                                            /\ host_measurement' = m.value
                                            /\ turn_new_info' = new_info
                                            /\ pending_patient_info' = IF asks THEN new_info ELSE pending_patient_info
                                            /\ additional_info_gathered' = IF asks THEN Append(additional_info_gathered, [turn |-> k + 2, type |-> "patient_query", query |-> query_text, response |-> routed.new_info]) ELSE additional_info_gathered
                                            /\ calls' = calls \o <<Call("host.measure_agreement", 0, m.value)>>
                                                              \o (IF consensus_reached THEN <<Call("host.analyze_discussion_state", 0, <<>>)>> ELSE <<>>)
                                                              \o (IF asks THEN <<Call("patient.speak", 0, patient_response)>> ELSE <<>>)
                                                              \o (IF asks /\ routed.reporter THEN <<Call("reporter.speak", 0, ThePatient.medical_records)>> ELSE <<>>)
                                            /\ discussion_ended' = IF consensus_reached THEN action = "finalize_after_discussion" ELSE discussion_ended
                                            /\ final_turn_number' = IF action = "finalize_after_discussion" THEN (k + 2) + 1 ELSE final_turn_number
                                            /\ diagnosis_in_discussion' = Append(diagnosis_in_discussion, TurnRecord(k + 2, m.value, action, new_info, NoneDict))
               /\ UNCHANGED <<rev, twin, batch, restVars, discussion_mode, diagnosis, initial_dialog_histories, initial_summary_result, host_critique_for_revision, host_decision, final_diagnosis, k, revision_requests, log>>

\* A final record that looks like the record of a turn that goes on.
UnmarkedFinalRecord(turn) == TurnRecord(turn, <<"#END#">>, "continue_discussion", NoneText, NoneDict)

\* A final record that takes the number of the last turn.
FinalRecordOfLastTurn(turn) == TurnRecord(turn - 1, <<"#END#">>, "finalize", NoneText, FinalizeConsultation)

\* The record of the final reporting round (lines 1144-1151 and 1199-1206).
FinalRecord(turn) == TurnRecord(turn, <<"#END#">>, "finalize", NoneText, FinalizeConsultation)

\* Lines 1108-1164: the check that ends an iteration.  When the end of the
\* discussion was scheduled the host finalizes, the final record is appended and
\* the loop is left; otherwise the loop goes on with the next index.
LoopCheck == /\ pc = "check"
             /\ IF discussion_ended
                THEN /\ final_diagnosis' = FinalizeConsultation
                     /\ calls' = Append(calls, Call("host.finalize_consultation", 0, <<"loop">>))
                     /\ diagnosis_in_discussion' = Append(diagnosis_in_discussion, FinalRecord(final_turn_number))
                     /\ pc' = "after"
                     /\ UNCHANGED k
                ELSE /\ pc' = LoopPc(k + 1)
                     /\ k' = IF k + 1 < max_discussion_turn THEN k + 1 ELSE k
                     /\ UNCHANGED <<final_diagnosis, calls, diagnosis_in_discussion>>
             /\ UNCHANGED <<rev, twin, batch, restVars, discussion_mode, diagnosis, initial_dialog_histories, initial_summary_result, host_critique_for_revision, additional_info_gathered, host_measurement, host_decision, discussion_ended, final_turn_number, pending_patient_info, turn_new_info, revision_requests, log>>

\* Lines 1165-1206: the doctors agreed at turn 1; the host finalizes directly.
DirectFinalize == /\ pc = "direct"
                  /\ final_turn_number' = 1
                  /\ final_diagnosis' = FinalizeConsultation
                  /\ calls' = Append(calls, Call("host.finalize_consultation", 0, <<"direct">>))
                  /\ diagnosis_in_discussion' = Append(diagnosis_in_discussion, FinalRecord(1))
                  /\ pc' = "after"
                  /\ UNCHANGED <<rev, twin, batch, restVars, discussion_mode, diagnosis, initial_dialog_histories, initial_summary_result, host_critique_for_revision, additional_info_gathered, host_measurement, host_decision, discussion_ended, pending_patient_info, turn_new_info, k, revision_requests, log>>

\* Lines 1208-1223: the loop ran out without a final diagnosis; the host finalizes.
FallbackFinalize == /\ pc = "after"
                    /\ final_diagnosis = NoneDict
                    /\ final_diagnosis' = FinalizeConsultation
                    /\ calls' = Append(calls, Call("host.finalize_consultation", 0, <<"fallback">>))
                    /\ UNCHANGED <<rev, twin, batch, restVars, pc, discussion_mode, diagnosis, initial_dialog_histories, initial_summary_result, host_critique_for_revision, diagnosis_in_discussion, additional_info_gathered, host_measurement, host_decision, discussion_ended, final_turn_number, pending_patient_info, turn_new_info, k, revision_requests, log>>

\* A turn record as the JSON writer serializes it: every diagnosis reference is
\* read at the time of writing.
Serialized(record) == [record EXCEPT !.diagnosis_in_turn = [d \in Doctors |-> [@[d] EXCEPT !.diagnosis = Deref(@, diagnosis)]], !.revised_diagnoses = [i \in DOMAIN record.revised_diagnoses |-> [@[i] EXCEPT !.diagnosis = Deref(@, diagnosis)]]]

\* A record that holds the patient's id only.
PatientIdOnly == [patient_id |-> ThePatient.id]

\* Lines 1336-1354: diagnosis_info, the output record of the patient (the keys
\* that hold command line arguments, engine names, the start time and the token
\* usage are left out).
DiagnosisInfo == [patient_id |-> ThePatient.id, initial_consultations |-> initial_dialog_histories, additional_info_gathered |-> additional_info_gathered, final_turn |-> final_turn_number, diagnosis |-> final_diagnosis, diagnosis_in_discussion |-> [i \in DOMAIN diagnosis_in_discussion |-> Serialized(diagnosis_in_discussion[i])]]

\* Lines 1355 and 1374-1377: save_info appends the record of the patient to the log.
SaveInfo == /\ pc = "after"
            /\ final_diagnosis # NoneDict
            /\ log' = Append(log, DiagnosisInfo)
            /\ pc' = "done"
            /\ UNCHANGED <<rev, twin, batch, restVars, discussion_mode, diagnosis, initial_dialog_histories, initial_summary_result, host_critique_for_revision, diagnosis_in_discussion, additional_info_gathered, host_measurement, host_decision, discussion_ended, final_turn_number, pending_patient_info, turn_new_info, final_diagnosis, k, calls, revision_requests>>

\* The phases of _run that call the gateway: every phase before save_info but the
\* check of an iteration that does not finalize and the end of a finalized run.
CallsGateway == \/ pc \in {"consult", "summary", "turn1", "turn1_phase2", "loop", "measure", "direct"}
                \/ pc = "check" /\ discussion_ended
                \/ pc = "after" /\ final_diagnosis = NoneDict

\* engine get_response raises after its last retry (engine/gpt.py:79) at the
\* first gateway call of the phase.  Neither the agents nor _run catch it: _run
\* ends there, and the statements that follow, save_info among them, do not run.
GatewayFailure == /\ CallsGateway
                  /\ pc' = "aborted"
                  /\ UNCHANGED <<rev, twin, batch, restVars, discussion_mode, diagnosis, initial_dialog_histories, initial_summary_result, host_critique_for_revision, diagnosis_in_discussion, additional_info_gathered, host_measurement, host_decision, discussion_ended, final_turn_number, pending_patient_info, turn_new_info, final_diagnosis, k, calls, revision_requests, log>>

\* The variables of the other specifications, at rest.
Idle == [stage |-> "idle"]

RestIdle == file = Idle /\ ledger = Idle /\ doc = Idle /\ engine = Idle /\ role = Idle /\ host = Idle /\ consult = Idle

Init == RunInit /\ rev = Idle /\ twin = Idle /\ batch = Idle /\ RestIdle

Next == \/ InitialConsultation
        \/ InitialSummary
        \/ Turn1Report
        \/ Turn1Phase2
        \/ LoopPendingUpdate
        \/ LoopRevise
        \/ LoopMeasure
        \/ LoopCheck
        \/ DirectFinalize
        \/ FallbackFinalize
        \/ SaveInfo
        \/ GatewayFailure

\* One patient's _run, from the initial consultations to the persisted record.
Spec == Init /\ [][Next]_vars

(***************************************************************************)
(* Properties of one patient's run.                                        *)
(***************************************************************************)

\* The results host.measure_agreement has returned so far, in order.
MeasureResults == SelectSeq(calls, LAMBDA c : c.op = "host.measure_agreement")

LastMeasure == IF MeasureResults = <<>> THEN NoneText ELSE MeasureResults[Len(MeasureResults)].arg

\* Every iteration of the discussion loop has been entered.
BudgetUsed == k + 1 >= max_discussion_turn

C3_RunEndsFinalized == pc \in {"done", "aborted"} => (pc = "done" /\ k < max_discussion_turn /\ final_diagnosis # NoneDict /\ Len(log) = 1)

C5_RevisionRequestHoldsNoPeer == \A q \in revision_requests : /\ q.peers = <<>>
                                                              /\ \A n \in DOMAIN q.request : q.request[n][1] \in {"name", "field"} => q.request[n][2] = q.doctor

\* C5 witness: in Parallel_with_Critique, in the second iteration of the loop, both
\* doctors have sent revision requests that hold the host's critique.
C5_Witness == /\ discussion_mode = "Parallel_with_Critique"
              /\ pc = "measure"
              /\ k = 1
              /\ \A d \in Doctors : \E q \in revision_requests : q.doctor = d /\ \E n \in DOMAIN q.request : q.request[n] = <<"critique">>

C21_RecordHoldsFiveKeys == \A i \in DOMAIN calls : calls[i].op = "doctor.speak" =>
                              LET d == calls[i].doctor
                              IN /\ d \in DOMAIN initial_dialog_histories
                                 /\ DOMAIN diagnosis[d][ThePatient.id] = KeySet
                                 /\ DOMAIN initial_dialog_histories[d].initial_diagnosis = KeySet
                                 /\ \A key \in KeySet : ~Contains(calls[i].arg, Marker(key)) => initial_dialog_histories[d].initial_diagnosis[key] = <<>>

\* C21 witness: the reply of the first doctor held no treatment_plan section, the
\* field is empty in its record, and the record has been revised in the loop since.
C21_Witness == /\ pc = "measure"
               /\ \E i \in DOMAIN calls : calls[i].op = "doctor.speak" /\ calls[i].doctor = 1 /\ ~Contains(calls[i].arg, Marker("treatment_plan"))
               /\ diagnosis[1][ThePatient.id]["treatment_plan"] = <<>>
               /\ diagnosis[1][ThePatient.id]["diagnosis_result"] \in {<<"dx2">>, <<"dx3">>}

\* The index in a trace of the last call of one of the operations ops, 0 when
\* there is none.
LastCallOf(trace, ops) == IF \E i \in DOMAIN trace : trace[i].op \in ops
                          THEN CHOOSE i \in DOMAIN trace : trace[i].op \in ops /\ \A j \in (i + 1)..Len(trace) : trace[j].op \notin ops
                          ELSE 0

RevisionOps == {"doctor.revise_diagnosis_by_others", "doctor.revise_diagnosis_with_new_info"}

EndOverridden(records) == /\ records # <<>>
                          /\ records[Len(records)].host_critique = <<"#END#">>
                          /\ records[Len(records)].host_decision \in {"begin_discussion", "continue_discussion"}

\* Since the host last measured the agreement the doctors have revised.
RevisedSinceMeasure(trace) == LastCallOf(trace, RevisionOps) > LastCallOf(trace, {"host.measure_agreement"})

C32_HistoryOfConsensusAtTurnN == \A N \in DOMAIN diagnosis_in_discussion :
                                    (/\ final_diagnosis # NoneDict
                                     /\ diagnosis_in_discussion[N].host_decision = "finalize_after_discussion"
                                     /\ diagnosis_in_discussion[1].host_critique # <<"#END#">>
                                     /\ \A i \in DOMAIN calls : calls[i].op # "patient.speak") =>
                                        /\ N >= 2
                                        /\ Len(diagnosis_in_discussion) = N + 1
                                        /\ \A n \in 1..N : diagnosis_in_discussion[n].turn = n /\ diagnosis_in_discussion[n].final_diagnosis_by_host = NoneDict
                                        /\ diagnosis_in_discussion[N + 1].turn = N + 1
                                        /\ diagnosis_in_discussion[N + 1].host_decision = "finalize"
                                        /\ diagnosis_in_discussion[N + 1].final_diagnosis_by_host = final_diagnosis

\* C32 witness: consensus at turn 2 after a disagreement at turn 1: two turn records
\* and the finalize record numbered 3.
C32_Witness == /\ pc = "done"
               /\ Len(diagnosis_in_discussion) = 3
               /\ diagnosis_in_discussion[1].host_critique = <<"#CONTINUE#">>
               /\ diagnosis_in_discussion[2].host_critique = <<"#END#">>
               /\ diagnosis_in_discussion[2].host_decision = "finalize_after_discussion"
               /\ diagnosis_in_discussion[3].turn = 3
               /\ \A i \in DOMAIN calls : calls[i].op # "patient.speak"

\* C34: in every run that is completed the host has finalized the consultation
\* exactly once, whether the doctors agreed at turn 1, reached consensus in the
\* loop or used up the budget, and the diagnosis of the persisted record is a
\* record of exactly the five keys, not None.
C34_FinalizedExactlyOnce == pc = "done" =>
                               /\ Len(SelectSeq(calls, LAMBDA c : c.op = "host.finalize_consultation")) = 1
                               /\ Len(log) = 1
                               /\ log[1].diagnosis # NoneDict
                               /\ DOMAIN log[1].diagnosis = KeySet

\* C34 witness: a completed run that used up the budget and was finalized after
\* the loop.
C34_Witness == /\ pc = "done"
               /\ \E i \in DOMAIN calls : calls[i] = Call("host.finalize_consultation", 0, <<"fallback">>)
               /\ Len(diagnosis_in_discussion) = MaxDiscussionTurn + 1

PatientAnswersObtained == SelectSeq(calls, LAMBDA c : c.op = "patient.speak")

C36_DiscussionAnswersReachFinalize == pc = "done" => Len(PatientAnswersObtained) = Len(additional_info_gathered) + (IF initial_summary_result.query_to_patient # NoneText THEN 1 ELSE 0)

\* C12: a run that a failure aborts, at whatever phase, leaves the log as it was,
\* without a record of its patient; the log changes only by one whole record
\* being appended by a run that completes.
C12_LogGrowsByWholeRecords == [][/\ pc' = "aborted" => (log' = log /\ \A i \in DOMAIN log' : log'[i].patient_id # ThePatient.id)
                                 /\ log' # log => /\ pc' = "done"
                                                  /\ Len(log') = Len(log) + 1
                                                  /\ SubSeq(log', 1, Len(log)) = log
                                                  /\ DOMAIN log'[Len(log')] = {"patient_id", "initial_consultations", "additional_info_gathered", "final_turn", "diagnosis", "diagnosis_in_discussion"}
                                                  /\ log'[Len(log')].patient_id = ThePatient.id
                                                  /\ DOMAIN log'[Len(log')].diagnosis = KeySet]_vars

\* C12 witness: the run was aborted by a failure in the discussion, after the
\* doctors had revised in the loop, and the log holds nothing.
C12_Witness == /\ pc = "aborted"
               /\ Len(diagnosis_in_discussion) >= 2
               /\ \E i \in DOMAIN calls : calls[i].op = "doctor.revise_diagnosis_by_others"
               /\ log = <<>>

\* The run was finalized by the fallback after the loop had used up
\* max_discussion_turn (lines 1208-1223).
ForcedFinalize == \E i \in DOMAIN calls : calls[i] = Call("host.finalize_consultation", 0, <<"fallback">>)

\* What tells the records apart: final_turn, the action of the host decision of
\* the last turn record, and whether a turn record of the finalization is there.
Signature(record) == LET turns == record.diagnosis_in_discussion
                     IN [final_turn |-> record.final_turn,
                         last_action |-> turns[Len(turns)].host_decision,
                         finalize_record |-> \E i \in DOMAIN turns : turns[i].host_decision = "finalize" /\ turns[i].final_diagnosis_by_host # NoneDict]

\* C18: the record of a run finalized because max_discussion_turn was used up
\* holds no turn record of a finalization and its last host decision is not
\* "finalize"; the record of every other completed run ends with the turn record
\* of the finalization.  No record of the first kind agrees with one of the second.
C18_ForcedFinalizeIsDistinguishable == pc = "done" => LET sig == Signature(log[1])
                                                      IN IF ForcedFinalize
                                                         THEN ~sig.finalize_record /\ sig.last_action # "finalize"
                                                         ELSE sig.finalize_record /\ sig.last_action = "finalize"

\* C18 witness: a completed run that was finalized by the fallback after the
\* last iteration of the loop had asked the patient.
C18_Witness == /\ pc = "done"
               /\ ForcedFinalize
               /\ k = max_discussion_turn - 1
               /\ Signature(log[1]).last_action = "update_with_patient_info"

\* The rounds in which the doctors have revised their diagnoses so far: the
\* revisions of the first doctor, by host critique or with new information.
RevisionRounds == {i \in DOMAIN calls : calls[i].doctor = 1 /\ calls[i].op \in {"doctor.revise_diagnosis_by_others", "doctor.revise_diagnosis_with_new_info"}}

Snapshot(i) == [d \in Doctors |-> Deref(diagnosis_in_discussion[i].diagnosis_in_turn[d].diagnosis, diagnosis)]

MaxChunks == 4

\* The pieces a gateway output is made of: two section markers, and characters
\* that also build broken markers.
Chunks == {Marker("diagnosis_result"), Marker("treatment_plan"), <<"#">>, <<"NL">>, <<"SP">>, <<"a">>}

Outputs == {Flatten(cs) : cs \in SeqsUpTo(Chunks, MaxChunks)}

\* The records a doctor may hold before a revision: every field present, the two
\* revised fields populated or empty.
PriorRecords == {[key \in KeySet |-> IF key = "diagnosis_result" THEN r ELSE IF key = "treatment_plan" THEN t ELSE <<"old">>] : r \in {<<>>, <<"old">>}, t \in {<<>>, <<"old">>}}

DoctorInit == /\ rev \in {[stage |-> "ready", before |-> b, output |-> o, after |-> b] : b \in PriorRecords, o \in Outputs}
              /\ RunAtRest
              /\ RestIdle
              /\ twin = Idle
              /\ batch = Idle

\* Doctor.revise_diagnosis_by_others on the output of the gateway.
DoReviseByOthers == /\ rev.stage = "ready"
                    /\ rev' = [rev EXCEPT !.stage = "by_others", !.after = ReviseDiagnosisByOthers(rev.before, rev.output)]
                    /\ UNCHANGED <<runVars, twin, batch, restVars>>

\* Doctor.revise_diagnosis_with_new_info on the output of the gateway.
DoReviseWithNewInfo == /\ rev.stage = "ready"
                       /\ rev' = [rev EXCEPT !.stage = "with_new_info", !.after = ReviseDiagnosisWithNewInfo(rev.before, rev.output)]
                       /\ UNCHANGED <<runVars, twin, batch, restVars>>

\* Doctor._format_diagnosis of the record, and Doctor.parse_diagnosis of the text.
DoRoundTrip == /\ rev.stage = "ready"
               /\ rev' = [rev EXCEPT !.stage = "round_trip", !.after = ParseDiagnosis(FormatDiagnosis(rev.before))]
               /\ UNCHANGED <<runVars, twin, batch, restVars>>

\* The gateway's output ends with the completion marker, as the request for the
\* structured summary asks (collaborative_consultation_star.py:487), and is parsed
\* by Doctor.parse_diagnosis (line 499) or by Host.parse_diagnosis.
DoParseMarked == /\ rev.stage = "ready"
                 /\ \E parser \in {"Doctor.parse_diagnosis", "Host.parse_diagnosis"} :
                       rev' = [rev EXCEPT !.stage = parser, !.after = IF parser = "Doctor.parse_diagnosis" THEN ParseDiagnosis(rev.output \o <<"<done>">>) ELSE HostParseDiagnosis(rev.output \o <<"<done>">>)]
                 /\ UNCHANGED <<runVars, twin, batch, restVars>>

DoctorNext == \/ DoReviseByOthers
              \/ DoReviseWithNewInfo
              \/ DoRoundTrip
              \/ DoParseMarked

SpecDoctor == DoctorInit /\ [][DoctorNext]_vars

\* C10: after either revision every field whose section marker is absent from the
\* output holds its previous value, and no field is lost.
C10_RevisionMerges == rev.stage \in {"by_others", "with_new_info"} =>
                         /\ DOMAIN rev.before \subseteq DOMAIN rev.after
                         /\ \A key \in KeySet : ~Contains(rev.output, Marker(key)) => rev.after[key] = rev.before[key]

\* C10 witness: an output with the diagnosis_result section and no treatment_plan
\* section has replaced the populated diagnosis_result and kept the populated treatment_plan.
C10_Witness == /\ rev.stage = "with_new_info"
               /\ Contains(rev.output, Marker("diagnosis_result"))
               /\ ~Contains(rev.output, Marker("treatment_plan"))
               /\ rev.before["diagnosis_result"] = <<"old">>
               /\ rev.after["diagnosis_result"] = <<"a">>
               /\ rev.before["treatment_plan"] = <<"old">>
               /\ rev.after["treatment_plan"] = <<"old">>

\* A record with the surrounding whitespace of every field removed.
Normalized(record) == [key \in DOMAIN record |-> Strip(record[key])]

\* C22: a record flattened by _format_diagnosis and parsed again by
\* parse_diagnosis is the record it was, up to whitespace, empty fields included.
C22_RoundTripGivesTheRecord == rev.stage = "round_trip" => Normalized(rev.after) = Normalized(rev.before)

\* C23: no field of the record parsed from an output that ends with the
\* completion marker holds the marker, for Doctor.parse_diagnosis and for
\* Host.parse_diagnosis.
C23_MarkerIsStripped == rev.stage \in {"Doctor.parse_diagnosis", "Host.parse_diagnosis"} => \A key \in DOMAIN rev.after : ~Contains(rev.after[key], <<"<done>">>)

(***************************************************************************)
(* agents/host.py: get_initial_summary_from_doctors in two runs that       *)
(* differ only in the patient's hidden medical records.                    *)
(* twin = [stage, doctors, records, request, result]; records, request and *)
(* result hold one value for each of the two runs.                         *)
(***************************************************************************)

\* The hidden medical records a patient may have.
MedicalRecords == {<<"mr1">>, <<"mr2">>, <<"mr3">>}

\* What a doctor may have reported of symptoms and examinations.
ReportedRecords == {[symptom |-> <<"s">>, examination |-> <<"e">>], [symptom |-> <<"s2">>, examination |-> <<>>], [symptom |-> <<"s">>]}

Runs == {1, 2}

PatientOf(records) == [id |-> ThePatient.id, medical_records |-> records]

SummaryInit == /\ twin \in {[stage |-> "ready", doctors |-> [d \in Doctors |-> [p \in {ThePatient.id} |-> reported[d]]], records |-> records, request |-> [r \in Runs |-> <<>>], result |-> [r \in Runs |-> NoneText]] : reported \in [Doctors -> ReportedRecords], records \in [Runs -> MedicalRecords]}
               /\ RunAtRest
               /\ RestIdle
               /\ rev = Idle
               /\ batch = Idle

\* Both runs build their request.
BuildSummaryRequests == /\ twin.stage = "ready"
                        /\ twin' = [twin EXCEPT !.stage = "requested", !.request = [r \in Runs |-> GetInitialSummaryRequest(twin.doctors, PatientOf(twin.records[r]))]]
                        /\ UNCHANGED <<runVars, rev, batch, restVars>>

\* The gateway answers both runs, equal requests alike, and both parse the answer.
ParseSummaryResponses == /\ twin.stage = "requested"
                         /\ \E response \in [Runs -> SummaryResponses] :
                               /\ twin.request[1] = twin.request[2] => response[1] = response[2]
                               /\ twin' = [twin EXCEPT !.stage = "summarized", !.result = [r \in Runs |-> ParseInitialSummary(response[r])]]
                         /\ UNCHANGED <<runVars, rev, batch, restVars>>

SummaryNext == \/ BuildSummaryRequests
               \/ ParseSummaryResponses

SpecSummary == SummaryInit /\ [][SummaryNext]_vars

\* C6: two runs that differ only in the patient's hidden medical records send the
\* same request and return the same summary.
C6_SummaryIgnoresMedicalRecords == /\ twin.stage \in {"requested", "summarized"} => twin.request[1] = twin.request[2]
                                   /\ twin.stage = "summarized" => twin.result[1] = twin.result[2]

\* C6 witness: two runs with different medical records have both returned the same
\* summary with a query to the patient.
C6_Witness == /\ twin.stage = "summarized"
              /\ twin.records[1] # twin.records[2]
              /\ twin.result[1] = twin.result[2]
              /\ twin.result[1].query_to_patient # NoneText

(***************************************************************************)
(* hospital/collaborative_consultation_star.py: run and parallel_run over  *)
(* the roster, with an output log that may hold records already.           *)
(* batch = [stage, entry, roster, log0, patients, ran, gateway, log]:      *)
(* roster and log0 are the roster and the log (its patient ids) at the     *)
(* start; patients is self.patients; ran the positions of self.patients    *)
(* whose _run has run; gateway the patients the gateway was called for.    *)
(***************************************************************************)

\* The bound on the number of patients of the roster.
MaxRoster == 3

\* The bound on the number of records in the log at the start.
MaxLogged == 2

PatientIds == {"P1", "P2", "P3"}

\* list[::-1]
Reverse(list) == [i \in 1..Len(list) |-> list[Len(list) - i + 1]]

\* list.pop(index) with a 0-based index: the list without that element.
Pop(list, index) == SubSeq(list, 1, index) \o SubSeq(list, index + 2, Len(list))

\* A test that takes no patient for processed.
NeverProcessed(processed_patient_ids, id) == FALSE

\* processed_patient_ids.get(patient.id) is not None (line 1367)
IsProcessed(processed_patient_ids, id) == id \in processed_patient_ids

\* The index popped for element i of the reversed list (line 1368).
PopIndex(patient_num, i) == patient_num - (i + 1)

\* The loop of lines 1366-1368 from index i on.
RECURSIVE RemoveLoop(_, _, _, _, _)
RemoveLoop(patients, reversed, i, patient_num, processed_patient_ids) == IF i >= Len(reversed) THEN patients
                                                                         ELSE RemoveLoop(IF IsProcessed(processed_patient_ids, reversed[i + 1]) THEN Pop(patients, PopIndex(patient_num, i)) ELSE patients, reversed, i + 1, patient_num, processed_patient_ids)

\* remove_processed_patients: self.patients afterwards, given the ids of the log.
RemoveProcessedPatients(patients, logged) == RemoveLoop(patients, Reverse(patients), 0, Len(patients), {logged[i] : i \in DOMAIN logged})

BatchInit == /\ batch \in {[stage |-> "start", entry |-> e, roster |-> r, log0 |-> l, patients |-> r, ran |-> {}, gateway |-> {}, log |-> l] : e \in {"run", "parallel_run"}, r \in SeqsUpTo(PatientIds, MaxRoster), l \in SeqsUpTo(PatientIds, MaxLogged)}
             /\ RunAtRest
             /\ RestIdle
             /\ rev = Idle
             /\ twin = Idle

\* The first statement of run and of parallel_run.
RemoveProcessed == /\ batch.stage = "start"
                   /\ batch' = [batch EXCEPT !.stage = "running", !.patients = RemoveProcessedPatients(batch.patients, batch.log)]
                   /\ UNCHANGED <<runVars, rev, twin, restVars>>

\* _run for the patient at position i: the gateway is called for the patient, and
\* the run saves its record unless it raised.
RunOf(i, raised) == [batch EXCEPT !.ran = @ \cup {i}, !.gateway = @ \cup {batch.patients[i]}, !.log = IF raised THEN @ ELSE Append(@, batch.patients[i])]

\* run: the patients one after the other; an exception of _run ends the loop.
RunPatient == /\ batch.stage = "running"
              /\ batch.entry = "run"
              /\ Cardinality(batch.ran) < Len(batch.patients)
              /\ \E raised \in BOOLEAN : batch' = [RunOf(Cardinality(batch.ran) + 1, raised) EXCEPT !.stage = IF raised THEN "stopped" ELSE "running"]
              /\ UNCHANGED <<runVars, rev, twin, restVars>>

\* parallel_run: the submitted patients in any order; an exception stays in its future.
ParallelRunPatient == /\ batch.stage = "running"
                      /\ batch.entry = "parallel_run"
                      /\ \E i \in DOMAIN batch.patients \ batch.ran, raised \in BOOLEAN : batch' = RunOf(i, raised)
                      /\ UNCHANGED <<runVars, rev, twin, restVars>>

BatchNext == \/ RemoveProcessed
             \/ RunPatient
             \/ ParallelRunPatient

SpecBatch == BatchInit /\ [][BatchNext]_vars

\* The ids of the records in the log at the start.
Logged0 == {batch.log0[i] : i \in DOMAIN batch.log0}

\* The number of records of patient id in a log.
RecordsOf(log_ids, id) == Cardinality({i \in DOMAIN log_ids : log_ids[i] = id})

\* C9: once the roster has been cleaned it is the original roster without the
\* patients of the log, in the original order; for a patient of the log the
\* gateway is never called and no record is added.
C9_ProcessedPatientsAreSkipped == batch.stage \in {"running", "stopped"} =>
                                     /\ batch.patients = SelectSeq(batch.roster, LAMBDA id : id \notin Logged0)
                                     /\ \A id \in Logged0 : id \notin batch.gateway /\ RecordsOf(batch.log, id) = RecordsOf(batch.log0, id)

\* C9 witness: of the roster P1, P2, P3 with P2 in the log, P1 and P3 were kept in
\* this order and both have been run and saved.
C9_Witness == /\ batch.stage = "running"
              /\ batch.roster = <<"P1", "P2", "P3">>
              /\ batch.log0 = <<"P2">>
              /\ batch.patients = <<"P1", "P3">>
              /\ batch.gateway = {"P1", "P3"}
              /\ batch.log = <<"P2", "P1", "P3">>

\* C11: a patient's run that raises does not end the batch: run and parallel_run
\* never stop while a patient of the cleaned roster has not been run.
C11_BatchGoesOnAfterFailure == batch.stage = "stopped" => batch.ran = DOMAIN batch.patients

(***************************************************************************)
(* hospital/collaborative_consultation_star.py: the worker threads of      *)
(* parallel_run, each ending its _run with save_info on the same file.     *)
(* file = [stage, content, worker]: content is the file as the sequence of *)
(* the pieces written to it; worker[w] holds where worker w is in          *)
(* save_info, in how many pieces its record reaches the file, and how      *)
(* many of them have been written.                                         *)
(***************************************************************************)

\* The bound on the number of worker threads that save at the same time.
NumWorkers == 2

\* The bound on the number of pieces in which one record reaches the file.
MaxPieces == 3

Workers == 1..NumWorkers

\* parallel_run, lines 539-542: every worker runs _run for a patient of its own.
\* The record of a worker is handed to the file in one write when it fits the
\* buffer of the file object and in several otherwise; the file objects of two
\* workers are different objects on the same path.
LogInit == /\ file \in {[stage |-> "log", content |-> <<>>, worker |-> [w \in Workers |-> [at |-> "running", pieces |-> n[w], written |-> 0]]] : n \in [Workers -> 1..MaxPieces]}
           /\ RunAtRest
           /\ rev = Idle /\ twin = Idle /\ batch = Idle
           /\ ledger = Idle /\ doc = Idle /\ engine = Idle /\ role = Idle /\ host = Idle /\ consult = Idle

\* save_info, line 1375: jsonlines.open(self.save_path, "a").  No lock is taken.
OpenLog(w) == /\ file.stage = "log"
              /\ file.worker[w].at = "running"
              /\ file' = [file EXCEPT !.worker[w].at = "open"]
              /\ UNCHANGED <<runVars, rev, twin, batch, ledger, doc, engine, role, host, consult>>

\* The piece a worker writes next: the worker, the number of the piece, and
\* whether it is the last piece of the record, which ends the line.
NextPiece(w) == [worker |-> w, part |-> file.worker[w].written + 1, last |-> file.worker[w].written + 1 = file.worker[w].pieces]

\* save_info, line 1376: f.write(dialog_info) fills the buffer, and a full buffer
\* is appended to the file.
WriteLog(w) == /\ file.stage = "log"
               /\ file.worker[w].at = "open"
               /\ file.worker[w].written + 1 < file.worker[w].pieces
               /\ file' = [file EXCEPT !.content = Append(@, NextPiece(w)), !.worker[w].written = @ + 1]
               /\ UNCHANGED <<runVars, rev, twin, batch, ledger, doc, engine, role, host, consult>>

\* save_info, lines 1375-1377: leaving the with block appends what is left in
\* the buffer, the end of the line, and closes the file.
CloseLog(w) == /\ file.stage = "log"
               /\ file.worker[w].at = "open"
               /\ file.worker[w].written + 1 = file.worker[w].pieces
               /\ file' = [file EXCEPT !.content = Append(@, NextPiece(w)), !.worker[w].written = @ + 1, !.worker[w].at = "closed"]
               /\ UNCHANGED <<runVars, rev, twin, batch, ledger, doc, engine, role, host, consult>>

LogNext == \E w \in Workers : \/ OpenLog(w)
                               \/ WriteLog(w)
                               \/ CloseLog(w)

SpecLog == LogInit /\ [][LogNext]_vars

MaxInteractions == 2

LedgerPatients == {"P1", "P2"}

\* self.reporter and self.host, lines 56-57: one object each.
SharedAgents == {"host", "reporter"}

\* Lines 1234 and 1323: self.host.token_usage.copy() and
\* self.reporter.token_usage.copy(), the whole ledger of each agent.
TokenUsageSummary(tokens, p) == [a \in SharedAgents |-> tokens[a]]

LedgerInit == /\ ledger \in {[stage |-> "ledger", entry |-> e, tokens |-> [a \in SharedAgents |-> <<>>], at |-> [p \in LedgerPatients |-> "waiting"], made |-> [p \in LedgerPatients |-> 0], summary |-> [p \in LedgerPatients |-> [a \in SharedAgents |-> <<>>]]] : e \in {"run", "parallel_run"}}
              /\ RunAtRest
              /\ rev = Idle /\ twin = Idle /\ batch = Idle
              /\ file = Idle /\ doc = Idle /\ engine = Idle /\ role = Idle /\ host = Idle /\ consult = Idle

\* run starts _run for the next patient when the one before has returned;
\* parallel_run submits every patient to the pool.
StartRun(p) == /\ ledger.stage = "ledger"
               /\ ledger.at[p] = "waiting"
               /\ ledger.entry = "run" => \A q \in LedgerPatients : ledger.at[q] # "running"
               /\ ledger' = [ledger EXCEPT !.at[p] = "running"]
               /\ UNCHANGED <<runVars, rev, twin, batch, file, doc, engine, role, host, consult>>

\* A call of the host or the reporter in the run of p: the agent appends the
\* interaction to its token usage.
AgentInteraction(p, a) == /\ ledger.stage = "ledger"
                          /\ ledger.at[p] = "running"
                          /\ ledger.made[p] < MaxInteractions
                          /\ ledger' = [ledger EXCEPT !.tokens[a] = Append(@, [patient |-> p, n |-> ledger.made[p] + 1]), !.made[p] = @ + 1]
                          /\ UNCHANGED <<runVars, rev, twin, batch, file, doc, engine, role, host, consult>>

\* Lines 1228-1355: the token usage summary is built and saved with the record.
SummarizeTokens(p) == /\ ledger.stage = "ledger"
                      /\ ledger.at[p] = "running"
                      /\ ledger' = [ledger EXCEPT !.summary[p] = TokenUsageSummary(ledger.tokens, p), !.at[p] = "done"]
                      /\ UNCHANGED <<runVars, rev, twin, batch, file, doc, engine, role, host, consult>>

LedgerNext == \E p \in LedgerPatients : \/ StartRun(p)
                                        \/ \E a \in SharedAgents : AgentInteraction(p, a)
                                        \/ SummarizeTokens(p)

SpecLedger == LedgerInit /\ [][LedgerNext]_vars

MaxCalls == 2

DocPatients == {"P1", "P2"}

\* The methods of the doctor that call the gateway.
DocMethods == {"speak", "revise_diagnosis_by_others", "revise_diagnosis_with_new_info"}

\* What the gateway returns to the doctor.
DocResponses == { <<"#", "diagnosis_result", "#", "NL", "dx2">> }

\* default_value_factory, default_diagnosis_factory and default_tokens_factory
\* (lines 62-78): what a defaultdict of the doctor gives for a key it does not hold.
DefaultMemory == << <<"system", <<"system_message">> >> >>

DefaultDiagnosis == EmptyDict

DefaultTokens == [total_input_tokens |-> 0, total_output_tokens |-> 0, interactions |-> <<>>]

\* Every patient's state is kept under one key.
OneKey(patient_id) == "P1"

\* The key of a patient's state in self.memories, self.diagnosis and
\* self.token_usage: the patient's id.
StateKey(patient_id) == patient_id

\* d[key] = value
Put(d, key, value) == [x \in (DOMAIN d) \cup {key} |-> IF x = key THEN value ELSE d[x]]

\* The doctor's memory, diagnosis and token usage for a patient, as reading the
\* defaultdicts gives them.
View(p) == [memory |-> DictGet(doc.memories, StateKey(p), DefaultMemory), diagnosis |-> DictGet(doc.diagnosis, StateKey(p), DefaultDiagnosis), token_usage |-> DictGet(doc.token_usage, StateKey(p), DefaultTokens)]

\* The user message is memorized when the call begins.
MemorizeUserFirst(memory, content) == Append(memory, <<"user", content>>)

\* speak, lines 165-171: the memory is read into the messages of the request and
\* is left as it is until the gateway has answered.
MemoryAtRequest(memory, content) == memory

\* The doctor classes: AiHubMixDoctor keeps the speak of Doctor and its engine
\* counts tokens; GPTDoctor has a speak of its own and an engine that does not.
DocKinds == {"Agent.Doctor.AiHubMix", "Agent.Doctor.GPT"}

\* Whether the speak of the class tracks the tokens: Doctor.speak does (lines
\* 181-186), the speak of GPTDoctor (lines 494-505) memorizes and returns.
SpeakTracksTokens(kind) == kind = "Agent.Doctor.AiHubMix"

\* get_response_with_tokens, lines 84-92: the counts of the engine, or zeros when
\* the engine has no get_response_with_tokens.
ResponseTokens(kind) == IF kind = "Agent.Doctor.AiHubMix" THEN [prompt_tokens |-> 3, completion_tokens |-> 2] ELSE [prompt_tokens |-> 0, completion_tokens |-> 0]

\* The token usage after an interaction is tracked (lines 181-186, 306-313, 448-455).
\* An entry of speak carries no turn (0 here); a revision carries current_turn,
\* which is 1 or more in every call of the discussion.
TrackTokens(usage, type, tokens) == [total_input_tokens |-> usage.total_input_tokens + tokens.prompt_tokens, total_output_tokens |-> usage.total_output_tokens + tokens.completion_tokens, interactions |-> Append(usage.interactions, [input_tokens |-> tokens.prompt_tokens, output_tokens |-> tokens.completion_tokens, type |-> type, turn |-> IF type = "speak" THEN 0 ELSE 1])]

\* The sum of a field over the interactions of a token usage.
RECURSIVE SumOf(_, _)
SumOf(interactions, field) == IF interactions = <<>> THEN 0 ELSE interactions[1][field] + SumOf(Tail(interactions), field)

\* collaborative_consultation_star.py, lines 1239-1289: what the token usage
\* summary of a patient's record holds for a doctor.  The initial consultation
\* phase is given the totals and the count of the doctor's token usage as it is
\* at the end of the run; the discussion phase the sums and the count of the
\* interactions that carry a turn of 1 or more.
DoctorTokenSummary(usage) == LET discussion_interactions == SelectSeq(usage.interactions, LAMBDA i : i.turn >= 1)
                             IN [initial_consultation_phase |-> [total_input_tokens |-> usage.total_input_tokens, total_output_tokens |-> usage.total_output_tokens, interaction_count |-> Len(usage.interactions)],
                                 discussion_phase |-> [total_input_tokens |-> SumOf(discussion_interactions, "input_tokens"), total_output_tokens |-> SumOf(discussion_interactions, "output_tokens"), interaction_count |-> Len(discussion_interactions)]]

\* The summary of a run that has not built one.
NoSummary == [initial_consultation_phase |-> NoneDict, discussion_phase |-> NoneDict]

DocInit == /\ doc \in {[stage |-> "doctor", kind |-> kind, summary |-> [p \in DocPatients |-> NoSummary], memories |-> EmptyDict, diagnosis |-> EmptyDict, token_usage |-> EmptyDict, thread |-> [p \in DocPatients |-> [at |-> "idle", op |-> "", calls |-> 0, result |-> "none", response |-> <<>>, before |-> [memory |-> DefaultMemory, diagnosis |-> DefaultDiagnosis, token_usage |-> DefaultTokens]]]] : kind \in DocKinds}
           /\ RunAtRest
           /\ rev = Idle /\ twin = Idle /\ batch = Idle
           /\ file = Idle /\ ledger = Idle /\ engine = Idle /\ role = Idle /\ host = Idle /\ consult = Idle

\* memorize, lines 150-151.
DocMemorize(p) == /\ doc.stage = "doctor"
                  /\ doc.thread[p].at = "idle"
                  /\ doc.thread[p].calls < MaxCalls
                  /\ doc' = [doc EXCEPT !.memories = Put(@, StateKey(p), Append(View(p).memory, <<"assistant", <<"greet">> >>)), !.thread[p].calls = @ + 1, !.thread[p].op = "memorize", !.thread[p].result = "returned", !.thread[p].before = View(p)]
                  /\ UNCHANGED <<runVars, rev, twin, batch, file, ledger, engine, role, host, consult>>

\* A method up to its call of the gateway.  speak reads self.memories[patient_id]
\* (lines 165-168); the revisions read self.diagnosis[patient.id] to build the
\* request (lines 256-298, 322-368, 418-440).  Reading a defaultdict stores the
\* default under a key it did not hold.
DocBegin(p, method) == /\ doc.stage = "doctor"
                       /\ doc.thread[p].at = "idle"
                       /\ doc.thread[p].calls < MaxCalls
                       /\ doc' = [doc EXCEPT !.memories = IF method = "speak" THEN Put(@, StateKey(p), MemoryAtRequest(View(p).memory, <<"content">>)) ELSE @,
                                             !.diagnosis = IF method # "speak" THEN Put(@, StateKey(p), View(p).diagnosis) ELSE @,
                                             !.thread[p] = [at |-> "waiting", op |-> method, calls |-> @.calls + 1, result |-> "none", response |-> <<>>, before |-> View(p)]]
                       /\ UNCHANGED <<runVars, rev, twin, batch, file, ledger, engine, role, host, consult>>

\* The gateway raises (engine get_response, after its last retry).  No method of
\* the doctor catches the exception: the call ends with it.
DocGatewayRaises(p) == /\ doc.stage = "doctor"
                       /\ doc.thread[p].at = "waiting"
                       /\ doc' = [doc EXCEPT !.thread[p].at = "idle", !.thread[p].result = "raised"]
                       /\ UNCHANGED <<runVars, rev, twin, batch, file, ledger, engine, role, host, consult>>

\* The gateway answers.  speak memorizes the user message and the response
\* (lines 173-174); a revision tracks the tokens (lines 306-313, 376-383, 448-455).
DocGatewayReturns(p) == /\ doc.stage = "doctor"
                        /\ doc.thread[p].at = "waiting"
                        /\ \E response \in DocResponses :
                              doc' = [doc EXCEPT !.memories = IF doc.thread[p].op = "speak" THEN Put(@, StateKey(p), View(p).memory \o << <<"user", <<"content">> >>, <<"assistant", response>> >>) ELSE @,
                                                 !.token_usage = IF doc.thread[p].op # "speak" THEN Put(@, StateKey(p), TrackTokens(View(p).token_usage, doc.thread[p].op, ResponseTokens(doc.kind))) ELSE @,
                                                 !.thread[p].at = "recording",
                                                 !.thread[p].response = response]
                        /\ UNCHANGED <<runVars, rev, twin, batch, file, ledger, engine, role, host, consult>>

\* The rest of the method.  The speak of Doctor tracks the tokens (lines 181-186)
\* and returns, the speak of GPTDoctor returns;
\* revise_diagnosis_by_others loads the response (lines 315-318, 385-388) and
\* revise_diagnosis_with_new_info updates the diagnosis with its parse (458-459).
DocRecord(p) == /\ doc.stage = "doctor"
                /\ doc.thread[p].at = "recording"
                /\ doc' = [doc EXCEPT !.token_usage = IF doc.thread[p].op = "speak" /\ SpeakTracksTokens(doc.kind) THEN Put(@, StateKey(p), TrackTokens(View(p).token_usage, "speak", ResponseTokens(doc.kind))) ELSE @,
                                      !.diagnosis = IF doc.thread[p].op = "revise_diagnosis_by_others" THEN Put(@, StateKey(p), ReviseDiagnosisByOthers(View(p).diagnosis, doc.thread[p].response))
                                                    ELSE IF doc.thread[p].op = "revise_diagnosis_with_new_info" THEN Put(@, StateKey(p), ReviseDiagnosisWithNewInfo(View(p).diagnosis, doc.thread[p].response))
                                                    ELSE @,
                                      !.thread[p].at = "idle",
                                      !.thread[p].result = "returned"]
                /\ UNCHANGED <<runVars, rev, twin, batch, file, ledger, engine, role, host, consult>>

\* collaborative_consultation_star.py, lines 1228-1355: at the end of a run that
\* no failure aborted the token usage summary is built and saved with the record.
\* Reading doctor.token_usage[patient.id] stores the default under a new key.
DocSummarizeTokens(p) == /\ doc.stage = "doctor"
                         /\ doc.thread[p].at = "idle"
                         /\ doc.thread[p].result = "returned"
                         /\ doc' = [doc EXCEPT !.token_usage = Put(@, StateKey(p), View(p).token_usage), !.summary[p] = DoctorTokenSummary(View(p).token_usage), !.thread[p].at = "saved"]
                         /\ UNCHANGED <<runVars, rev, twin, batch, file, ledger, engine, role, host, consult>>

DocNext == \E p \in DocPatients : \/ DocMemorize(p)
                                  \/ \E method \in DocMethods : DocBegin(p, method)
                                  \/ DocGatewayRaises(p)
                                  \/ DocGatewayReturns(p)
                                  \/ DocRecord(p)
                                  \/ DocSummarizeTokens(p)

SpecDoc == DocInit /\ [][DocNext]_vars

\* C15: a step of the doctor taken in the run of one patient leaves the memory,
\* the diagnosis and the token usage of every other patient unchanged, in every
\* interleaving of the runs.
C15_OtherPatientsStateUnchanged == [][\A p \in DocPatients : (doc.stage = "doctor" /\ doc'.thread[p] = doc.thread[p]) => View(p)' = View(p)]_vars

\* C15 witness: the doctor holds a memory, a diagnosis and token usage for P1, and
\* a speak and a revision have completed for P2 since.
C15_Witness == /\ doc.stage = "doctor"
               /\ Len(View("P1").memory) > 1
               /\ View("P1").diagnosis # EmptyDict
               /\ doc.thread["P2"].calls = MaxCalls
               /\ doc.thread["P2"].at = "idle"
               /\ Len(View("P2").memory) > 1
               /\ View("P2").diagnosis # EmptyDict

\* C16: when the gateway raises in speak or in a revision the call ends with the
\* exception, and the doctor's memory, diagnosis and token usage for the patient
\* are what they were when the call began.
C16_FailedCallRecordsNothing == doc.stage = "doctor" => \A p \in DocPatients : doc.thread[p].result = "raised" => (doc.thread[p].at = "idle" /\ View(p) = doc.thread[p].before)

\* C16 witness: after a completed revision for P1 the gateway raised in a speak
\* for P1, while a call for P2 is in flight.
C16_Witness == /\ doc.stage = "doctor"
               /\ doc.thread["P1"].result = "raised"
               /\ doc.thread["P1"].op = "speak"
               /\ View("P1").diagnosis # EmptyDict
               /\ View("P1").token_usage.interactions # <<>>
               /\ doc.thread["P2"].at = "waiting"

(***************************************************************************)
(* engine/gpt.py and engine/aihubmix.py: one call of get_response.         *)
(* engine = [stage, kind, i, requests, status]: the engine class, the loop *)
(* counter i, the outcomes of the requests sent so far in order, and       *)
(* whether the call is in its loop, has returned or has raised.            *)
(***************************************************************************)

\* `while i < 5` (gpt.py:37, aihubmix.py:41)
MaxAttempts == 5

EngineKinds == {"GPTEngine", "AiHubMixEngine"}

\* How a request ends without a response: openai.BadRequestError with or without
\* "max_tokens" in its message, openai.RateLimitError, any other exception.
RequestFailures == {"BadRequestError_max_tokens", "BadRequestError", "RateLimitError", "Exception"}

RequestOutcomes == {"ok"} \cup RequestFailures

EngineInit == /\ engine \in {[stage |-> "engine", kind |-> c, i |-> 0, requests |-> <<>>, status |-> "loop"] : c \in EngineKinds}
              /\ RunAtRest
              /\ rev = Idle /\ twin = Idle /\ batch = Idle
              /\ file = Idle /\ ledger = Idle /\ doc = Idle /\ role = Idle /\ host = Idle /\ consult = Idle

\* One iteration of the loop of GPTEngine.get_response (gpt.py:37-77).  A
\* response breaks the loop and is returned.  After a BadRequestError that names
\* max_tokens the request is sent again with max_completion_tokens inside the
\* handler: its response breaks the loop, its failure is passed over.  Every
\* failed iteration adds one to i.
AttemptGPT == /\ engine.stage = "engine"
              /\ engine.kind = "GPTEngine"
              /\ engine.status = "loop"
              /\ engine.i < MaxAttempts
              /\ \E outcome \in RequestOutcomes, again \in RequestOutcomes :
                    IF outcome = "ok"
                    THEN engine' = [engine EXCEPT !.requests = Append(@, outcome), !.status = "returned"]
                    ELSE IF outcome = "BadRequestError_max_tokens"
                    THEN engine' = [engine EXCEPT !.requests = @ \o <<outcome, again>>, !.status = IF again = "ok" THEN "returned" ELSE "loop", !.i = IF again = "ok" THEN @ ELSE @ + 1]
                    ELSE engine' = [engine EXCEPT !.requests = Append(@, outcome), !.i = @ + 1]
              /\ UNCHANGED <<runVars, rev, twin, batch, file, ledger, doc, role, host, consult>>

\* One iteration of the loop of AiHubMixEngine.get_response (aihubmix.py:41-69).
AttemptAiHubMix == /\ engine.stage = "engine"
                   /\ engine.kind = "AiHubMixEngine"
                   /\ engine.status = "loop"
                   /\ engine.i < MaxAttempts
                   /\ \E outcome \in RequestOutcomes :
                         engine' = [engine EXCEPT !.requests = Append(@, outcome), !.status = IF outcome = "ok" THEN "returned" ELSE "loop", !.i = IF outcome = "ok" THEN @ ELSE @ + 1]
                   /\ UNCHANGED <<runVars, rev, twin, batch, file, ledger, doc, role, host, consult>>

\* The loop ends without a response: `raise Exception("Failed to get response
\* after 5 retries")` (gpt.py:78-79, aihubmix.py:71-72).
RetriesExhausted == /\ engine.stage = "engine"
                    /\ engine.status = "loop"
                    /\ engine.i >= MaxAttempts
                    /\ engine' = [engine EXCEPT !.status = "raised"]
                    /\ UNCHANGED <<runVars, rev, twin, batch, file, ledger, doc, role, host, consult>>

EngineNext == \/ AttemptGPT
              \/ AttemptAiHubMix
              \/ RetriesExhausted

SpecEngine == EngineInit /\ [][EngineNext]_vars

\* C17: one call of get_response sends at most 5 requests; it returns on the
\* first response, without a further request; it raises exactly when 5 requests
\* have failed.
C17_AtMostFiveRequests == engine.stage = "engine" =>
                             /\ Len(engine.requests) <= MaxAttempts
                             /\ \A n \in DOMAIN engine.requests : engine.requests[n] = "ok" => (n = Len(engine.requests) /\ engine.status = "returned")
                             /\ engine.status = "returned" => (engine.requests # <<>> /\ engine.requests[Len(engine.requests)] = "ok")
                             /\ engine.status = "raised" => (Len(engine.requests) = MaxAttempts /\ \A n \in DOMAIN engine.requests : engine.requests[n] \in RequestFailures)
                             /\ (Len(engine.requests) = MaxAttempts /\ \A n \in DOMAIN engine.requests : engine.requests[n] \in RequestFailures) => engine.status \in {"loop", "raised"} /\ engine.i = MaxAttempts

(***************************************************************************)
(* agents/patient.py: parse_role_content on one reply of the patient.      *)
(* role = [stage, reply, parsed]: the reply and what the parse returned.   *)
(***************************************************************************)

\* The bound on the length of a reply.
MaxReplyLen == 4

\* What a reply is made of: the two tags, two words and a space.
ReplyTokens == {"<E>", "<D>", "x", "y", "SP"}

RoleInit == /\ role \in {[stage |-> "reply", reply |-> r, parsed |-> [speak_to |-> "", content |-> <<>>, reporter |-> <<>>, doctor |-> <<>>], branch |-> ""] : r \in SeqsUpTo(ReplyTokens, MaxReplyLen)}
            /\ RunAtRest
            /\ rev = Idle /\ twin = Idle /\ batch = Idle
            /\ file = Idle /\ ledger = Idle /\ doc = Idle /\ engine = Idle /\ host = Idle /\ consult = Idle

ParseReply == /\ role.stage = "reply"
              /\ role' = [role EXCEPT !.stage = "parsed", !.parsed = ParseRoleContent(role.reply)]
              /\ UNCHANGED <<runVars, rev, twin, batch, file, ledger, doc, engine, host, consult>>

\* collaborative_consultation_star.py lines 309-467: the branch of the
\* conversation loop that the target of the patient's reply selects; the last
\* one raises Exception("Wrong!").
RouteReply == /\ role.stage = "parsed"
              /\ role' = [role EXCEPT !.stage = "routed", !.branch = IF role.parsed.speak_to = "dual" THEN "dual"
                                                                       ELSE IF role.parsed.speak_to = "doctor" THEN "doctor"
                                                                       ELSE IF role.parsed.speak_to = "examiner" THEN "examiner"
                                                                       ELSE "raise"]
              /\ UNCHANGED <<runVars, rev, twin, batch, file, ledger, doc, engine, host, consult>>

RoleNext == ParseReply \/ RouteReply

SpecRole == RoleInit /\ [][RoleNext]_vars

\* How often a tag occurs in a reply.
Occurrences(text, tag) == Cardinality({n \in DOMAIN text : text[n] = tag})

\* The text that follows the first occurrence of a tag up to the next tag or the
\* end of the reply.
TextAfterTag(text, tag) == LET rest == After(text, tag)
                               stops == {n \in DOMAIN rest : rest[n] \in {"<E>", "<D>"}}
                           IN IF stops = {} THEN rest ELSE SubSeq(rest, 1, (CHOOSE n \in stops : \A m \in stops : n <= m) - 1)

\* C20: every reply gets one of three targets: dual exactly when both tags occur,
\* examiner exactly when the examiner tag occurs without the doctor tag, doctor
\* otherwise, also when no tag occurs; a dual reply that holds each tag once, in
\* either order, is split into the text after the examiner tag for the reporter
\* and the text after the doctor tag for the doctor.
C20_ReplyHasOneTarget == role.stage = "parsed" =>
                            LET r == role.reply
                                examiner_tag == Occurrences(r, "<E>") > 0
                                doctor_tag == Occurrences(r, "<D>") > 0
                            IN /\ role.parsed.speak_to \in {"dual", "examiner", "doctor"}
                               /\ role.parsed.speak_to = "dual" <=> (examiner_tag /\ doctor_tag)
                               /\ role.parsed.speak_to = "examiner" <=> (examiner_tag /\ ~doctor_tag)
                               /\ role.parsed.speak_to = "doctor" <=> ~examiner_tag
                               /\ (Occurrences(r, "<E>") = 1 /\ Occurrences(r, "<D>") = 1) => (role.parsed.reporter = Strip(TextAfterTag(r, "<E>")) /\ role.parsed.doctor = Strip(TextAfterTag(r, "<D>")))

\* C20 witness: a reply with the doctor tag before the examiner tag was split
\* into the doctor's and the reporter's text.
C20_Witness == /\ role.stage = "parsed"
               /\ role.reply = <<"<D>", "y", "<E>", "x">>
               /\ role.parsed.speak_to = "dual"
               /\ role.parsed.reporter = <<"x">>
               /\ role.parsed.doctor = <<"y">>

(***************************************************************************)
(* agents/host.py: one call of a method of the host on the replies of the  *)
(* gateway.                                                                *)
(* host = [stage, method, mode, replies, result]: the method called, the   *)
(* discussion mode, the replies the gateway gives to the requests of the   *)
(* call in order, and, once the call has ended, whether it raised and what *)
(* it returned.                                                            *)
(***************************************************************************)

\* The bound on the number of pieces of a reply of the gateway to the host.
MaxHostReplyLen == 3

\* A call that has not ended.
NoResult == [raised |-> FALSE]

\* The bound on the number of questions in a reply to analyze_discussion_state.
MaxQuestions == 4

\* n question lines, each "- q" on a line of its own, as the prompt of
\* analyze_discussion_state asks for them (host.py line 715).
RECURSIVE QuestionLines(_)
QuestionLines(n) == IF n = 0 THEN <<>> ELSE <<"NL", "-", "q">> \o QuestionLines(n - 1)

\* The bound on --number_of_doctors in a call that builds the doctor-name list.
MaxNumberOfDoctors == 3

\* The methods of the host that build the list of the doctors' names for their
\* request: lines 264-268, 183-186, 667-671 and 122-126.
NamingMethods == {"get_initial_summary_from_doctors", "measure_agreement", "analyze_discussion_state", "finalize_consultation"}

\* "、".join(doctor_names), with "," the separator.
RECURSIVE JoinNames(_)
JoinNames(doctor_names) == IF Len(doctor_names) <= 1 THEN doctor_names ELSE <<Head(doctor_names), ",">> \o JoinNames(Tail(doctor_names))

\* The list of the doctors' names as the four methods build it, with "and" the
\* word between the last two: with more than two names the join of all but the
\* last and the last; otherwise doctor_names[0] + "和" + doctor_names[1], which
\* raises IndexError when there are fewer than two names.
DoctorNames(doctor_names) == IF Len(doctor_names) > 2
                             THEN [raised |-> FALSE, value |-> JoinNames(SubSeq(doctor_names, 1, Len(doctor_names) - 1)) \o <<"and", doctor_names[Len(doctor_names)]>>]
                             ELSE IF Len(doctor_names) = 2
                                  THEN [raised |-> FALSE, value |-> <<doctor_names[1], "and", doctor_names[2]>>]
                                  ELSE [raised |-> TRUE, value |-> <<"IndexError">>]

\* The calls of the host and the replies of the gateway to each:
\* finalize_consultation with a summary of symptoms and examinations made of
\* section markers, # characters, blank lines and text (line 151) and the final
\* diagnosis (line 154); analyze_discussion_state with a reason, an action and,
\* with or without the question marker, up to MaxQuestions questions (line 719);
\* measure_agreement in either mode with a judgement made of the two markers and
\* text (line 212) and a critique (line 234); and the first lines of each of the
\* four methods that name the doctors, with the doctors that __init__ made of
\* default_names (collaborative_consultation_star.py lines 30-43).
HostInit == /\ \/ host \in {[stage |-> "called", method |-> "finalize_consultation", mode |-> "Parallel", replies |-> <<Flatten(summary), <<"#", "diagnosis_result", "#", "NL", "dx", "NL", "#", "treatment_plan", "#", "NL", "t", "NL", "<done>">> >>, result |-> NoResult] :
                              summary \in SeqsUpTo({Marker("symptom"), Marker("examination"), <<"#">>, <<"NL", "NL">>, <<"a">>}, MaxHostReplyLen)}
               \/ host \in {[stage |-> "called", method |-> "analyze_discussion_state", mode |-> "Parallel", replies |-> << <<"#REASON#", "NL", "r", "NL", "#ACTION#", "NL", action, "NL">> \o question_marker \o QuestionLines(n)>>, result |-> NoResult] :
                              action \in {"ASK_PATIENT", "END_WORD", "GO_ON"}, question_marker \in {<<"#QUESTION#">>, <<>>}, n \in 0..MaxQuestions}
               \/ host \in {[stage |-> "called", method |-> "measure_agreement", mode |-> mode, replies |-> <<Flatten(judgement), Flatten(critique)>>, result |-> NoResult] :
                              mode \in {"Parallel", "Parallel_with_Critique"},
                              judgement \in SeqsUpTo({<<"#END#">>, <<"#CONTINUE#">>, <<"x">>}, MaxHostReplyLen),
                              critique \in SeqsUpTo({<<"(a)">>, <<"x">>}, MaxHostReplyLen)}
               \/ host \in {[stage |-> "called", method |-> "doctor_names", of |-> method, mode |-> "Parallel", doctors |-> SubSeq(<<"Alice", "Bob", "Carol", "David">>, 1, number_of_doctors), replies |-> <<>>, result |-> NoResult] :
                              method \in NamingMethods, number_of_doctors \in 1..MaxNumberOfDoctors}
            /\ RunAtRest
            /\ rev = Idle /\ twin = Idle /\ batch = Idle
            /\ file = Idle /\ ledger = Idle /\ doc = Idle /\ engine = Idle /\ role = Idle /\ consult = Idle

\* finalize_consultation, lines 151-169: the two replies are parsed and combined
\* into the complete diagnosis.
HostFinalizeConsultation == /\ host.stage = "called"
                            /\ host.method = "finalize_consultation"
                            /\ LET symptom_exam_dict == ParseSymptomAndExamination(host.replies[1])
                                   diagnosis_dict == HostParseDiagnosis(host.replies[2])
                               IN host' = [host EXCEPT !.stage = "ended", !.result = [raised |-> FALSE, value |-> [key \in KeySet |-> IF key \in DOMAIN symptom_exam_dict THEN symptom_exam_dict[key] ELSE diagnosis_dict[key]]]]
                            /\ UNCHANGED <<runVars, rev, twin, batch, file, ledger, doc, engine, role, consult>>

\* analyze_discussion_state, lines 719-727: the reply is parsed into the decision
\* that is returned.
HostAnalyzeDiscussionState == /\ host.stage = "called"
                              /\ host.method = "analyze_discussion_state"
                              /\ host' = [host EXCEPT !.stage = "ended", !.result = [raised |-> FALSE, value |-> ParseHostDecision(host.replies[1])]]
                              /\ UNCHANGED <<runVars, rev, twin, batch, file, ledger, doc, engine, role, consult>>

\* The orchestrator's use of the decision, collaborative_consultation_star.py
\* lines 946-958: the stripped query is handed to patient.speak as it is when the
\* action is query_patient and the query is not empty.  sent: the content the
\* patient is given, None when the patient is not asked.
HostQueryToPatient == /\ host.stage = "ended"
                      /\ host.method = "analyze_discussion_state"
                      /\ LET consensus_analysis == host.result.value
                             query_text == Strip(consensus_analysis.query)
                         IN host' = [host EXCEPT !.stage = "asked", !.result = [raised |-> FALSE, value |-> consensus_analysis, sent |-> IF consensus_analysis.action = "query_patient" /\ query_text # <<>> THEN query_text ELSE NoneText]]
                      /\ UNCHANGED <<runVars, rev, twin, batch, file, ledger, doc, engine, role, consult>>

\* measure_agreement, lines 212-237, on the judgement and, when a second request
\* is made, the critique.
HostMeasureAgreement == /\ host.stage = "called"
                        /\ host.method = "measure_agreement"
                        /\ host' = [host EXCEPT !.stage = "ended", !.result = MeasureAgreement(host.replies[1], host.replies[2], host.mode)]
                        /\ UNCHANGED <<runVars, rev, twin, batch, file, ledger, doc, engine, role, consult>>

\* The doctor-name list of a method that names the doctors in its request.
HostDoctorNames == /\ host.stage = "called"
                   /\ host.method = "doctor_names"
                   /\ host' = [host EXCEPT !.stage = "ended", !.result = DoctorNames(host.doctors)]
                   /\ UNCHANGED <<runVars, rev, twin, batch, file, ledger, doc, engine, role, consult>>

\* One call of a method of the host.
SpecHost == HostInit /\ [][HostFinalizeConsultation \/ HostAnalyzeDiscussionState \/ HostQueryToPatient \/ HostMeasureAgreement \/ HostDoctorNames]_vars

\* C24: when the host's summary of symptoms and examinations lacks the symptom
\* section or the examination section, the parse raises instead of giving the
\* empty text for the field.
C24_SummaryParseIsStrict == (host.stage = "ended" /\ host.method = "finalize_consultation" /\ (~Contains(host.replies[1], Marker("symptom")) \/ ~Contains(host.replies[1], Marker("examination")))) => host.result.raised

(***************************************************************************)
(* collaborative_consultation_star.py, _conduct_initial_consultation: the   *)
(* initial consultations of one patient, run one after the other in the     *)
(* order of the doctors (_run, lines 562-566).                              *)
(* consult = [stage, i, turn, last, patient_memories, doctor_memories,      *)
(* requests, results]: the doctor whose consultation runs, the index of the *)
(* conversation loop, the last entry of dialog_history, the memory of the   *)
(* patient instance in use, each doctor's memory for the patient, the       *)
(* requests made to the gateway so far and the consultations' results.      *)
(* A message carries in "of" the consultation it was written in, 0 for an  *)
(* agent's system message; a request is kept as the agent that made it, the *)
(* consultation it was made in and the set of the "of" of its messages.     *)
(***************************************************************************)

\* The bound on max_conversation_turn.
MaxConversationTurn == 2

SystemMessage == [role |-> "system", content |-> <<"sys">>, of |-> 0]

\* A patient that is the instance an earlier consultation talked to.
SamePatientMemories(earlier) == earlier

\* Lines 278-284: the consultation talks to a patient instance created for it;
\* its memory is that of a new agent, whatever earlier instances remember.
NewPatientMemories(earlier) == <<SystemMessage>>

\* A request to the gateway.
Request(agent, d, messages) == [agent |-> agent, consultation |-> d, origins |-> {messages[j].of : j \in DOMAIN messages}]

\* Reporter.speak(medical_records, content): the request holds the record and the
\* query, nothing of earlier queries.
ReporterRequest(d, content) == Request("reporter", d, <<SystemMessage, [role |-> "user", content |-> content, of |-> d]>>)

\* The replies of the gateway to the patient and to the doctor in a consultation.
ConsultPatientReplies == {<<"<D>", "y">>, <<"<E>", "x">>, <<"<E>", "x", "<D>", "y">>, <<"<E>", "<D>", "y">>, <<"<E>", "x", "<D>">>}

ConsultDoctorReplies == {<<"ask">>, <<"dx", "<done>">>}

\* Patient.parse_role_content of each of the patient's replies, computed once.
ParsedConsultReply == [responese \in ConsultPatientReplies |-> ParseRoleContent(responese)]

ConsultInit == /\ consult = [stage |-> "next", i |-> 1, turn |-> 0, last |-> [role |-> "", content |-> <<>>, of |-> 0],
                             patient_memories |-> <<SystemMessage>>, doctor_memories |-> [d \in Doctors |-> <<SystemMessage>>], requests |-> {}, results |-> <<>>]
               /\ RunAtRest
               /\ rev = Idle /\ twin = Idle /\ batch = Idle
               /\ file = Idle /\ ledger = Idle /\ doc = Idle /\ engine = Idle /\ role = Idle /\ host = Idle

\* Lines 278-294: the patient instance is created and the doctor greets.
ConsultBegin == /\ consult.stage = "next"
                /\ consult.i <= NumDoctors
                /\ LET d == consult.i
                       greet == [role |-> "assistant", content |-> <<"greet">>, of |-> d]
                   IN consult' = [consult EXCEPT !.stage = IF MaxConversationTurn > 0 THEN "turn" ELSE "summary",
                                                 !.turn = 0,
                                                 !.last = [role |-> "Doctor", content |-> <<"greet">>, of |-> d],
                                                 !.patient_memories = NewPatientMemories(consult.patient_memories),
                                                 !.doctor_memories[d] = Append(@, greet)]
                /\ UNCHANGED <<runVars, rev, twin, batch, file, ledger, doc, engine, role, host>>

\* A doctor's answer that never ends the loop.
NeverCompleted(doctor_response) == FALSE

\* Lines 382, 416 and 464: the doctor's answer holds the completion marker, and the
\* loop is left.
DiagnosisCompleted(doctor_response) == Contains(doctor_response, <<"<done>">>)

\* Lines 304-467: one iteration of the conversation loop.  The patient answers
\* the last entry of the dialogue (Patient.speak, patient.py lines 85-95); the
\* answer is routed to the reporter, to the doctor or to both; the doctor's
\* answer ends the loop when it holds the marker.
ConsultTurn == /\ consult.stage = "turn"
               /\ \E patient_response \in ConsultPatientReplies, doctor_response \in ConsultDoctorReplies :
                     LET d == consult.i
                         asked == [role |-> "user", content |-> <<consult.last.role>> \o consult.last.content, of |-> consult.last.of]
                         patient_request == Request("patient", d, Append(consult.patient_memories, asked))
                         parsed == ParsedConsultReply[patient_response]
                         to_reporter == IF parsed.speak_to = "dual" THEN parsed.reporter # <<>> ELSE parsed.speak_to = "examiner"
                         reporter_content == IF parsed.speak_to = "dual" THEN parsed.reporter ELSE parsed.content
                         to_doctor == IF parsed.speak_to = "dual" THEN parsed.doctor # <<>> ELSE parsed.speak_to \in {"doctor", "examiner"}
                         doctor_input == IF parsed.speak_to = "dual" THEN parsed.doctor \o (IF to_reporter THEN <<"NL", "EXAM">> \o ReporterResponse ELSE <<>>)
                                         ELSE IF parsed.speak_to = "examiner" THEN ReporterResponse ELSE parsed.content
                         heard == [role |-> "user", content |-> doctor_input, of |-> d]
                         ended == to_doctor /\ DiagnosisCompleted(doctor_response)
                     IN IF parsed.speak_to \notin {"dual", "doctor", "examiner"}
                        THEN consult' = [consult EXCEPT !.stage = "raised"]
                        ELSE consult' = [consult EXCEPT !.stage = IF ended \/ consult.turn + 1 >= MaxConversationTurn THEN "summary" ELSE "turn",
                                                        !.turn = @ + 1,
                                                        !.last = IF to_doctor THEN [role |-> "Doctor", content |-> doctor_response, of |-> d]
                                                                 ELSE IF to_reporter THEN [role |-> "Reporter", content |-> ReporterResponse, of |-> d]
                                                                 ELSE @,
                                                        !.patient_memories = @ \o <<asked, [role |-> "assistant", content |-> patient_response, of |-> d]>>,
                                                        !.doctor_memories[d] = IF to_doctor THEN @ \o <<heard, [role |-> "assistant", content |-> doctor_response, of |-> d]>> ELSE @,
                                                        !.requests = @ \cup {patient_request}
                                                                       \cup (IF to_reporter THEN {ReporterRequest(d, reporter_content)} ELSE {})
                                                                       \cup (IF to_doctor THEN {Request("doctor", d, Append(consult.doctor_memories[d], heard))} ELSE {})]
               /\ UNCHANGED <<runVars, rev, twin, batch, file, ledger, doc, engine, role, host>>

\* Lines 469-552: the doctor is asked for the structured summary, which is parsed
\* and completed into the doctor's record, and the consultation's result is
\* returned; _run goes on with the next doctor.
ConsultEnd == /\ consult.stage = "summary"
              /\ \E doctor_response \in StructuredSummaryReplies :
                    LET d == consult.i
                        query == [role |-> "user", content |-> <<"summary_query">>, of |-> d]
                    IN consult' = [consult EXCEPT !.stage = "next",
                                                  !.i = @ + 1,
                                                  !.doctor_memories[d] = @ \o <<query, [role |-> "assistant", content |-> doctor_response, of |-> d]>>,
                                                  !.requests = @ \cup {Request("doctor", d, Append(consult.doctor_memories[d], query))},
                                                  !.results = Append(@, [doctor_id |-> d - 1, final_turn |-> consult.turn, initial_diagnosis |-> EnsureFields(ParseDiagnosis(doctor_response))])]
              /\ UNCHANGED <<runVars, rev, twin, batch, file, ledger, doc, engine, role, host>>

\* The initial consultations of one patient.
SpecConsult == ConsultInit /\ [][ConsultBegin \/ ConsultTurn \/ ConsultEnd]_vars

\* The number of questions in a text: its "- " line starts.
RECURSIVE Questions(_)
Questions(text) == IF text = <<>> THEN 0 ELSE (IF Head(text) = "-" THEN 1 ELSE 0) + Questions(Tail(text))

\* C25: every decision that analyze_discussion_state returns with the action
\* query_patient carries between one and three questions, and the content the
\* patient is given holds at most three questions.
C25_QueryCarriesOneToThreeQuestions == /\ (host.method = "analyze_discussion_state" /\ host.stage \in {"ended", "asked"} /\ host.result.value.action = "query_patient") => Questions(host.result.value.query) \in 1..3
                                       /\ (host.method = "analyze_discussion_state" /\ host.stage = "asked" /\ host.result.sent # NoneText) => Questions(host.result.sent) <= 3

\* text ends with suffix
EndsWith(text, suffix) == Len(suffix) <= Len(text) /\ SubSeq(text, Len(text) - Len(suffix) + 1, Len(text)) = suffix

\* C30: measure_agreement returns the end marker after one request whenever the
\* judgement holds the end marker, the continue marker included or not; with only
\* the continue marker it returns the continue marker after one request in
\* Parallel mode and, in Parallel_with_Critique mode, after exactly one more
\* request, the critique: the second reply, from its last "(a)" on when it has
\* one; with neither marker it raises.
C30_MeasureAgreementResult == (host.method = "measure_agreement" /\ host.stage = "ended") =>
                                  LET judgement == host.replies[1]
                                      critique == host.replies[2]
                                      result == host.result
                                  IN IF Contains(judgement, <<"#END#">>)
                                     THEN ~result.raised /\ result.value = <<"#END#">> /\ result.gateway_calls = 1
                                     ELSE IF Contains(judgement, <<"#CONTINUE#">>)
                                          THEN IF host.mode = "Parallel"
                                               THEN ~result.raised /\ result.value = <<"#CONTINUE#">> /\ result.gateway_calls = 1
                                               ELSE /\ ~result.raised /\ result.gateway_calls = 2
                                                    /\ EndsWith(critique, result.value)
                                                    /\ IF Contains(critique, <<"(a)">>) THEN Head(result.value) = "(a)" /\ ~Contains(Tail(result.value), <<"(a)">>) ELSE result.value = critique
                                          ELSE result.raised

C30_Witness == /\ host.method = "measure_agreement" /\ host.stage = "ended"
               /\ host.mode = "Parallel_with_Critique"
               /\ host.replies[1] = <<"#CONTINUE#", "x", "#END#">>
               /\ host.result.value = <<"#END#">>
               /\ host.result.gateway_calls = 1

\* C26: the initial consultations of one patient share no state that changes:
\* every request made to the gateway in a doctor's consultation, by the patient,
\* the reporter or the doctor, holds only messages written in that consultation
\* and system messages; nothing of another doctor's consultation reaches it.
C26_ConsultationsShareNoState == \A q \in consult.requests : q.origins \subseteq {0, q.consultation}

C26_Witness == /\ consult.stage = "next" /\ consult.i = NumDoctors + 1
               /\ Len(consult.results) = NumDoctors
               /\ \A d \in Doctors : \A agent \in {"patient", "reporter", "doctor"} : \E q \in consult.requests : q.agent = agent /\ q.consultation = d /\ (agent # "reporter" => d \in q.origins)
               /\ Len(consult.patient_memories) > 1

\* The messages of a doctor's memory that the doctor was given in the conversation
\* loop, and the requests for the structured summary.
HeardInLoop(d) == SelectSeq(consult.doctor_memories[d], LAMBDA m : m.role = "user" /\ m.content # <<"summary_query">>)

SummaryQueries(d) == SelectSeq(consult.doctor_memories[d], LAMBDA m : m.role = "user" /\ m.content = <<"summary_query">>)

\* C31: a consultation asks the patient at most max_conversation_turn times, the
\* doctor speaks at most once for each time the patient was asked, nothing but the
\* request for the structured summary follows a doctor's answer that holds the
\* completion marker, and a consultation that has ended, by the marker or by the
\* budget, has made exactly one request for the structured summary, whose reply,
\* parsed, is the consultation's diagnosis; before that it has made none.
C31_ConsultationIsBounded == /\ consult.turn <= MaxConversationTurn
                             /\ \A d \in Doctors :
                                   LET memories == consult.doctor_memories[d]
                                       asked == IF d \in DOMAIN consult.results THEN consult.results[d].final_turn ELSE IF d = consult.i THEN consult.turn ELSE 0
                                   IN /\ asked <= MaxConversationTurn
                                      /\ Len(HeardInLoop(d)) <= asked
                                      /\ \A j \in 1..(Len(memories) - 1) : (memories[j].role = "assistant" /\ Contains(memories[j].content, <<"<done>">>)) => memories[j + 1].content = <<"summary_query">>
                                      /\ IF d \in DOMAIN consult.results
                                         THEN /\ Len(SummaryQueries(d)) = 1
                                              /\ memories[Len(memories) - 1].content = <<"summary_query">>
                                              /\ consult.results[d].initial_diagnosis = EnsureFields(ParseDiagnosis(memories[Len(memories)].content))
                                         ELSE Len(SummaryQueries(d)) = 0

\* C31 witness: the first consultation ended at the first turn on the marker, the
\* second ran out of turns with no answer of the doctor holding the marker, and
\* each made its request for the structured summary.
C31_Witness == /\ Len(consult.results) = NumDoctors
               /\ consult.results[1].final_turn = 1
               /\ consult.doctor_memories[1][4].content = <<"dx", "<done>">>
               /\ consult.results[2].final_turn = MaxConversationTurn
               /\ \A j \in 1..(Len(consult.doctor_memories[2]) - 1) : ~Contains(consult.doctor_memories[2][j].content, <<"<done>">>)
               /\ Len(SummaryQueries(1)) = 1 /\ Len(SummaryQueries(2)) = 1

\* C38: whatever the patient replies, with tags or without, the routing of the
\* reply in the conversation loop does not take the branch that raises.
C38_RoutingNeverRaises == role.stage = "routed" => role.branch \in {"dual", "doctor", "examiner"}

\* C38 witness: a reply without any tag, and the empty reply, are routed to the
\* doctor.
C38_Witness == /\ role.stage = "routed"
               /\ role.reply \in {<<>>, <<"x", "SP", "y">>}
               /\ role.branch = "doctor"

\* The totals of a doctor's token usage are the sums over its interactions.
TotalsAreSums(usage) == /\ usage.total_input_tokens = SumOf(usage.interactions, "input_tokens")
                        /\ usage.total_output_tokens = SumOf(usage.interactions, "output_tokens")

\* The interactions are those held when the call began and one more at the end.
OneEntryAppended(before, after) == /\ Len(after.interactions) = Len(before.interactions) + 1
                                   /\ SubSeq(after.interactions, 1, Len(before.interactions)) = before.interactions

\* C33: for every doctor and patient the totals of the token usage are the sums
\* over the interactions, and when a speak or a revision has returned, the
\* interactions are those held when the call began followed by one entry for it.
C33_LedgerConsistentAppendOnly == doc.stage = "doctor" => \A p \in DocPatients :
                                     /\ TotalsAreSums(View(p).token_usage)
                                     /\ (doc.thread[p].result = "returned" /\ doc.thread[p].op \in DocMethods) => OneEntryAppended(doc.thread[p].before.token_usage, View(p).token_usage)

\* C33, the part that holds: the totals are the sums, no call changes an entry
\* the token usage held before, and a revision or the speak of a doctor whose
\* class keeps Doctor.speak appends one entry.
C33_LedgerOfTrackedCalls == doc.stage = "doctor" => \A p \in DocPatients :
                               LET before == doc.thread[p].before.token_usage
                                   after == View(p).token_usage
                               IN /\ TotalsAreSums(after)
                                  /\ (doc.thread[p].result = "returned" /\ doc.thread[p].op \in DocMethods) =>
                                        IF doc.thread[p].op = "speak" /\ ~SpeakTracksTokens(doc.kind) THEN after = before ELSE OneEntryAppended(before, after) /\ after.interactions[Len(after.interactions)].type = doc.thread[p].op

C37_InitialPhaseHoldsWholeLedger == doc.stage = "doctor" => \A p \in DocPatients : doc.thread[p].at = "saved" =>
                                       LET usage == View(p).token_usage
                                           revisions == SelectSeq(usage.interactions, LAMBDA i : i.type # "speak")
                                       IN /\ doc.summary[p].initial_consultation_phase = [total_input_tokens |-> usage.total_input_tokens, total_output_tokens |-> usage.total_output_tokens, interaction_count |-> Len(usage.interactions)]
                                          /\ doc.summary[p].discussion_phase = [total_input_tokens |-> SumOf(revisions, "input_tokens"), total_output_tokens |-> SumOf(revisions, "output_tokens"), interaction_count |-> Len(revisions)]

\* C39: for any number of doctors from one up, each of the four methods of the
\* host that name the doctors builds its doctor-name list without raising.
C39_DoctorNamesNeverRaise == (host.stage = "ended" /\ host.method = "doctor_names") => ~host.result.raised

\* C39, the part that holds: with two or more doctors the list is built, and it
\* names every doctor once, in order.
C39_DoctorNamesOfTwoOrMore == (host.stage = "ended" /\ host.method = "doctor_names" /\ Len(host.doctors) >= 2) =>
                                 /\ ~host.result.raised
                                 /\ SelectSeq(host.result.value, LAMBDA t : t \notin {",", "and"}) = host.doctors

====
